---- MODULE Spec2Model ----
(***************************************************************************)
(* State-machine model of the client-side stores of the cleaner front end. *)
(* The system store (src/src/store/systemStore.ts) is a zustand store; its *)
(* asynchronous operations are split at every await into the synchronous   *)
(* part that runs at the call and one handler per settled request.         *)
(***************************************************************************)
EXTENDS Integers, Sequences, FiniteSets, Bags, TLC

VARIABLES
    store,      \* the zustand state object (initialState and what set() merged in)
    scans,      \* one record per startScan call: its closure variables and promise
    cleans,     \* one record per startCleaning call: what it read and its promise
    inflight,   \* requests handed to the HTTP client and not settled yet
    sent,       \* bag of every request handed to the HTTP client so far
    backend,    \* what the backend holds for each scan id
    unhandled,  \* rejections of interval callbacks, which nobody awaits
    calls,      \* number of calls made to the store from outside so far
    now,        \* the wall clock read by new Date(), in timer periods
    limits,     \* the bounds of the specification in force; never changes
    inits,      \* one record per initialize call: its position and its promise
    storage,    \* the value of the 'system-store' key of local storage
    toasts,     \* the notifications the response interceptor has shown for the
                \* requests of initialize, oldest first
    socketio,   \* the socket.io bridge hook: its socketRef, the sockets it made
    websocket,  \* the WebSocket bridge hook: its wsRef, the sockets it made and
                \* its reconnect timeouts
    signals,    \* the CustomEvents dispatched on window, oldest first
    query,      \* the react-query state of the useSystemInfo hook
    hologram,   \* the state object of the hologram store
    burstLog    \* the calls of triggerBurst and the values consumeBurst returned

\* The state of the hooks and of the hologram store.
hookVars == <<socketio, websocket, signals, query, hologram, burstLog>>

vars == <<store, scans, cleans, inflight, sent, backend, unhandled, calls, now,
          limits, inits, storage, toasts,
          socketio, websocket, signals, query, hologram, burstLog>>

----------------------------------------------------------------------------
(* Bounds of the model *)

MaxScans == 1       \* Spec: calls of startScan
MaxTicks == 2       \* Spec: firings of poll timers, all scans together
MaxStoreCalls == 3  \* SpecStore: calls of startScan, setScanResult, selectItem,
                    \* updateSettings and startCleaning, all together
MaxInitCalls == 2   \* SpecInit: calls of initialize and updateSettings and
                    \* reloads of the page, all together
MaxHttpCalls == 1   \* SpecHttp: calls of initialize
MaxSelectCalls == 4 \* SpecSelect: calls of selectItem
MaxPushCalls == 2   \* SpecPush: calls of startScan and pushed scan-complete
                    \* events, all together
MaxPushTicks == 1   \* SpecPush: firings of poll timers
MaxOverlap == 2     \* SpecOverlap: calls of startScan, and firings of poll
MaxRefetches == 2   \* SpecQuery: firings of the refetch interval
MaxApiScans == 1    \* SpecApi: calls of startScan
MaxApiCalls == 3    \* SpecApi: calls of the store's functions and of the helpers
MaxApiTicks == 1    \* SpecApi: firings of the poll timer
MaxBridgeCalls == 3 \* SpecBridge: calls of the hook's functions and events received
MaxBridgeTicks == 2 \* SpecBridge: 'connect' and 'disconnect' events of the sockets
MaxPageCalls == 2   \* SpecPage: clicks on the start button
MaxPageTicks == 1   \* SpecPage: firings of the poll timers
MaxStaleCalls == 3  \* SpecStale: scan results set, items selected and cleanings started
MaxWsCalls == 3     \* SpecWs: calls of the hook's functions and messages received
MaxWsTicks == 2     \* SpecWs: firings of the reconnect timeout
MaxBurstCalls == 5  \* SpecHologram: calls of the hologram store's functions
                    \* timers, all scans together

----------------------------------------------------------------------------
(* Values *)

Null == [null |-> TRUE]

NoError == "none"

\* Outcomes of a rejected request: no response, a non-2xx response.
Errors == {"network", "http500"}

\* Argument values of startScan.
CategoryLists == {<<"temp_files">>, <<"temp_files", "system_cache">>}

\* Statuses the backend reports for a scan.
Terminal == {"completed", "failed"}
Statuses == {"running"} \cup Terminal

ScanIds == 1..3

Paths == {"/tmp/a", "/tmp/b"}

\* Object.values(categories) of a results payload: one category with two
\* items and one without an items field, or no category at all.
CatsWithItems ==
    << [items |-> << [path |-> "/tmp/a"], [path |-> "/tmp/b"] >>],
       [size |-> 0] >>

CatsNone == << >>

\* What a completed scan can have found: the body of a 2xx answer to
\* GET /scan/results/<id>.  The backend may or may not repeat the scan id.
ResultsPayloads(id) ==
    { [status |-> "completed", total_files |-> 120, total_size |-> 500000,
       categories |-> CatsWithItems],
      [scan_id |-> id, status |-> "completed", total_files |-> 0,
       total_size |-> 0, categories |-> CatsNone] }

\* The body of a 2xx answer to GET /scan/status/<id> while the backend holds
\* b for the scan: the status and, for a completed scan, its totals.
StatusPayload(b) ==
    IF b.status = "completed"
    THEN [status |-> b.status, total_files |-> b.results.total_files,
          total_size |-> b.results.total_size]
    ELSE [status |-> b.status]

\* The data of a pushed scan-complete event: a ScanResult.
PushPayloads ==
    { [scan_id |-> id, status |-> "completed", total_files |-> 120,
       total_size |-> 500000, categories |-> CatsWithItems,
       timestamp |-> 0] : id \in {1, 3} }

\* Arguments of updateSettings.
SettingsPatches ==
    { [theme |-> "light"],
      [language |-> "en", autoScan |-> FALSE, dataSharing |-> TRUE] }

----------------------------------------------------------------------------
(* JavaScript object helpers *)

\* {...a, ...b}: the fields of b override those of a.
Spread(a, b) ==
    [k \in (DOMAIN a) \cup (DOMAIN b) |-> IF k \in DOMAIN b THEN b[k] ELSE a[k]]

\* [...xs, x]
Push(xs, x) == Append(xs, x)

\* Variant of partialize: the busy flags are saved with the preferences.
partialize_withFlags(state) ==
    [ theme       |-> state.theme,
      language    |-> state.language,
      autoScan    |-> state.autoScan,
      dataSharing |-> state.dataSharing,
      isScanning  |-> state.isScanning,
      isCleaning  |-> state.isCleaning ]

\* partialize of the persist options: the part of the state that is saved.
partialize(state) ==
    [ theme       |-> state.theme,
      language    |-> state.language,
      autoScan    |-> state.autoScan,
      dataSharing |-> state.dataSharing ]

\* zustand set(partial) under the persist middleware: shallow merge into the
\* state object, then the partialized state is written to local storage.
Set(partial) ==
    /\ store' = Spread(store, partial)
    /\ storage' = partialize(Spread(store, partial))

\* A request as the HTTP client sees it; origin is the store call issuing it.
Req(origin, method, url, body) ==
    [origin |-> origin, method |-> method, url |-> url, body |-> body]

Send(req) == sent' = sent (+) SetToBag({req})

----------------------------------------------------------------------------
(* The store *)

initialState ==
    [ isInitialized |-> FALSE,
      isScanning    |-> FALSE,
      isCleaning    |-> FALSE,
      systemInfo    |-> Null,
      currentScan   |-> Null,
      scanHistory   |-> << >>,
      selectedItems |-> << >>,
      theme         |-> "dark",
      language      |-> "de",
      autoScan      |-> TRUE,
      dataSharing   |-> FALSE ]

\* set({ isScanning: true }) at the start of startScan
startScanPatch == [isScanning |-> TRUE]

\* Variant of startScanBody: the AI flag is left off.
startScanBody_noAI(categories) ==
    [categories |-> categories, enable_ai |-> FALSE, user_id |-> "default"]

\* the body of the POST of startScan
startScanBody(categories) ==
    [categories |-> categories, enable_ai |-> TRUE, user_id |-> "default"]

scanStartUrl == << "/scan/start" >>
scanStatusUrl(id) == << "/scan/status", id >>
scanResultsUrl(id) == << "/scan/results", id >>

\* the catch block of startScan
startScanCatchPatch == [isScanning |-> FALSE]

\* the record built from the results response
scanResultOf(scanId, data, time) ==
    Spread(Spread([scan_id |-> scanId], data), [timestamp |-> time])

\* set({...}) of the completed branch
completedPatch(st, scanResult) ==
    [ currentScan |-> scanResult,
      isScanning  |-> FALSE,
      scanHistory |-> Push(st.scanHistory, scanResult) ]

\* set({...}) of the failed branch
failedPatch == [isScanning |-> FALSE]

\* Variant of stopScanPatch: stopping also drops the selection.
stopScanPatch_dropsSelection == [isScanning |-> FALSE, selectedItems |-> << >>]

\* stopScan: () => set({ isScanning: false })
stopScanPatch == [isScanning |-> FALSE]

\* Variant of timerAfterStatus: the failed branch forgets clearInterval.
timerAfterStatus_failedKeeps(timer, status) ==
    IF status = "completed" THEN FALSE ELSE timer

\* Variant of timerAfterStatus: the timer is cleared after the first answer.
timerAfterStatus_once(timer, status) == FALSE

\* The poll timer after the callback has seen a status: clearInterval in the
\* completed and the failed branch, untouched otherwise.
timerAfterStatus(timer, status) ==
    IF status = "completed" THEN FALSE
    ELSE IF status = "failed" THEN FALSE
    ELSE timer

\* The poll timer after stopScan: stopScan does not touch it.
timerAfterStop(timer) == timer

\* Whether the callback goes on to fetch the results.
fetchesResults(status) == status = "completed"

\* The settlement of the promise startScan returned, once the POST settled.
\* The try block ends after setInterval, so a resolved POST resolves it.
promiseAfterPost(ok) == IF ok THEN "resolved" ELSE "rejected"

\* The settlement of startScan's promise after a callback threw: the promise
\* was settled when the POST settled and the timer callback is not awaited.
promiseAfterCallbackThrow(promise) == promise

\* handleStartScan: the toast the scan page shows for a settled startScan.
toastOf(promise) ==
    IF promise = "resolved" THEN "System-Scan gestartet"
    ELSE IF promise = "rejected" THEN "Fehler beim Starten des Scans"
    ELSE "none"

----------------------------------------------------------------------------
(* Selection and cleaning *)

\* selectItem: [...state.selectedItems, path]
selectItemPatch(st, path) == [selectedItems |-> Push(st.selectedItems, path)]

\* Variant of deselectItemPatch: only the first occurrence is removed.
deselectItemPatch_first(st, path) ==
    LET items == st.selectedItems
        hits == {i \in 1..Len(items) : items[i] = path}
    IN  IF hits = {} THEN [selectedItems |-> items]
        ELSE LET k == CHOOSE i \in hits : \A j \in hits : i <= j
             IN  [selectedItems |-> SubSeq(items, 1, k - 1)
                                     \o SubSeq(items, k + 1, Len(items))]

\* deselectItem: state.selectedItems.filter(item => item !== path)
deselectItemPatch(st, path) ==
    [selectedItems |-> SelectSeq(st.selectedItems, LAMBDA item : item # path)]

\* The paths selectAll collects: item.path of every item of every category
\* that has items, in the order of Object.values.
RECURSIVE allPaths(_)
allPaths(categories) ==
    IF categories = << >> THEN << >>
    ELSE LET category == Head(categories) IN
         (IF "items" \in DOMAIN category
          THEN [i \in 1..Len(category.items) |-> category.items[i].path]
          ELSE << >>) \o allPaths(Tail(categories))

\* selectAll's set({ selectedItems: allPaths })
selectAllPatch(st) == [selectedItems |-> allPaths(st.currentScan.categories)]

\* deselectAll
deselectAllPatch == [selectedItems |-> << >>]

\* setScanResult
setScanResultPatch(st, result) ==
    [currentScan |-> result, scanHistory |-> Push(st.scanHistory, result)]

\* Variant of cleaningSkipped: the empty selection is not checked.
cleaningSkipped_onlyNoScan(st) == st.currentScan = Null

\* The guard of startCleaning: it returns at once when this holds.
cleaningSkipped(st) == st.currentScan = Null \/ Len(st.selectedItems) = 0

\* set({ isCleaning: true })
startCleaningPatch == [isCleaning |-> TRUE]

cleanStartUrl == << "/clean/start" >>

\* Variant of startCleaningBody: no backup is asked for.
startCleaningBody_noBackup(currentScan, selectedItems) ==
    [ scan_id        |-> currentScan.scan_id,
      selected_items |-> selectedItems,
      create_backup  |-> FALSE,
      user_id        |-> "default" ]

\* the body of the POST of startCleaning
startCleaningBody(currentScan, selectedItems) ==
    [ scan_id        |-> currentScan.scan_id,
      selected_items |-> selectedItems,
      create_backup  |-> TRUE,
      user_id        |-> "default" ]

\* Variant of cleanedPatch: a finished cleaning also empties the history.
cleanedPatch_clearsHistory ==
    [isCleaning |-> FALSE, selectedItems |-> << >>, currentScan |-> Null,
     scanHistory |-> << >>]

\* set({...}) after the POST of startCleaning resolved
cleanedPatch == [isCleaning |-> FALSE, selectedItems |-> << >>, currentScan |-> Null]

\* Variant of cleanCatchPatch: the failure path clears like the success path.
cleanCatchPatch_clears ==
    [isCleaning |-> FALSE, selectedItems |-> << >>, currentScan |-> Null]

\* the catch block of startCleaning
cleanCatchPatch == [isCleaning |-> FALSE]

\* catch (error) { ...; throw error }: what the catch blocks re-throw.
rethrown(error) == error

----------------------------------------------------------------------------
(* Initial state *)

\* The hologram store as create(...) builds it.
hologramInitialState == [defaultBurstCount |-> 80, pendingBursts |-> << >>]

\* The socket.io bridge hook before connect: socketRef is null (0), no socket
\* was made, isConnected is false, nothing was emitted.
socketioInitialState ==
    [ref |-> 0, sockets |-> << >>, isConnected |-> FALSE, emitted |-> << >>]

\* The WebSocket bridge hook before connect: wsRef is null (0), no socket was
\* made, no reconnect timeout is pending.  asked records the last of connect
\* and disconnect the component called, and timers the url-less count of
\* pending reconnect timeouts.
websocketInitialState ==
    [ref |-> 0, sockets |-> << >>, timers |-> 0, delivered |-> << >>,
     asked |-> "none"]

\* The query of useSystemInfo before the hook is mounted.
queryInitialState ==
    [status |-> "idle", data |-> Null, error |-> Null, failureCount |-> 0,
     fetching |-> FALSE]

\* Nothing was triggered and nothing consumed.
burstLogInitialState == [triggered |-> << >>, returned |-> << >>]

HooksInit ==
    /\ socketio = socketioInitialState
    /\ websocket = websocketInitialState
    /\ signals = << >>
    /\ query = queryInitialState
    /\ hologram = hologramInitialState
    /\ burstLog = burstLogInitialState

InitProgram ==
    /\ store = initialState
    /\ scans = << >>
    /\ cleans = << >>
    /\ inflight = {}
    /\ sent = EmptyBag
    /\ backend = [id \in ScanIds |-> [status |-> "none"]]
    /\ unhandled = {}
    /\ calls = 0
    /\ now = 0
    /\ inits = << >>
    /\ storage = partialize(initialState)
    /\ toasts = << >>
    /\ HooksInit

Calls == 1..Len(scans)

CleanCalls == 1..Len(cleans)

StartReq(c) == [kind |-> "start", call |-> c, n |-> 0]

CleanReq(k) == [kind |-> "clean", call |-> k, n |-> 0]

\* The id the backend gives to the next accepted scan.
NextScanId == 1 + Cardinality({id \in ScanIds : backend[id].status # "none"})

----------------------------------------------------------------------------
(* startScan *)

\* startScan(categories) up to its first await: the flag and the POST.
StartScan(categories) ==
    /\ calls < limits.calls
    /\ calls' = calls + 1
    /\ LET c == Len(scans) + 1 IN
        /\ Set(startScanPatch)
        /\ Send(Req(<<"startScan", c>>, "POST", scanStartUrl, startScanBody(categories)))
        /\ inflight' = inflight \cup {StartReq(c)}
        /\ scans' = Append(scans,
               [ categories |-> categories,
                 scanId     |-> 0,
                 timer      |-> FALSE,
                 polls      |-> 0,
                 promise    |-> "pending",
                 error      |-> NoError,
                 observed   |-> Null,
                 stopped    |-> FALSE ])
    /\ UNCHANGED <<cleans, backend, unhandled, now, limits, inits, toasts, hookVars>>

\* The POST resolved: scanId is read from the response and setInterval
\* starts the poll timer; the try block ends, so startScan resolves.
StartResolved(c) ==
    /\ StartReq(c) \in inflight
    /\ LET id == NextScanId IN
        /\ backend' = [backend EXCEPT ![id] = [status |-> "running"]]
        /\ scans' = [scans EXCEPT ![c].scanId = id,
                                  ![c].timer = TRUE,
                                  ![c].promise = promiseAfterPost(TRUE)]
    /\ inflight' = inflight \ {StartReq(c)}
    /\ UNCHANGED <<store, storage, cleans, sent, unhandled, calls, now, limits, inits, toasts, hookVars>>

\* The POST rejected: the catch block resets the flag and re-throws.
StartRejected(c, err) ==
    /\ StartReq(c) \in inflight
    /\ Set(startScanCatchPatch)
    /\ scans' = [scans EXCEPT ![c].promise = promiseAfterPost(FALSE),
                              ![c].error = rethrown(err)]
    /\ inflight' = inflight \ {StartReq(c)}
    /\ UNCHANGED <<cleans, sent, backend, unhandled, calls, now, limits, inits, toasts, hookVars>>

\* The interval fires: the callback runs up to its first await.
PollTick(c) ==
    /\ scans[c].timer
    /\ now < limits.ticks
    /\ LET k == scans[c].polls + 1 IN
        /\ Send(Req(<<"startScan", c>>, "GET", scanStatusUrl(scans[c].scanId), Null))
        /\ inflight' = inflight \cup {[kind |-> "status", call |-> c, n |-> k]}
        /\ scans' = [scans EXCEPT ![c].polls = k]
    /\ now' = now + 1
    /\ UNCHANGED <<store, storage, cleans, backend, unhandled, calls, limits, inits, toasts, hookVars>>

\* A status request resolved: the rest of the callback up to its next await
\* or its end.
StatusResolved(r) ==
    /\ r \in inflight
    /\ r.kind = "status"
    /\ LET c == r.call
           id == scans[c].scanId
           data == StatusPayload(backend[id])
           status == data.status
       IN
        /\ scans' = [scans EXCEPT
               ![c].timer = timerAfterStatus(scans[c].timer, status),
               ![c].observed = IF status \in Terminal /\ scans[c].observed = Null
                               THEN data ELSE scans[c].observed,
               ![c].promise = IF status = "failed"
                              THEN promiseAfterCallbackThrow(scans[c].promise)
                              ELSE scans[c].promise]
        /\ IF fetchesResults(status)
           THEN /\ Send(Req(<<"startScan", c>>, "GET", scanResultsUrl(id), Null))
                /\ inflight' = (inflight \ {r}) \cup
                                   {[kind |-> "results", call |-> c, n |-> r.n]}
                /\ UNCHANGED <<store, storage, unhandled>>
           ELSE IF status = "failed"
           THEN /\ Set(failedPatch)
                /\ unhandled' = unhandled \cup {[call |-> c, reason |-> "Scan failed"]}
                /\ inflight' = inflight \ {r}
                /\ UNCHANGED sent
           ELSE /\ inflight' = inflight \ {r}
                /\ UNCHANGED <<store, storage, sent, unhandled>>
    /\ UNCHANGED <<cleans, backend, calls, now, limits, inits, toasts, hookVars>>

\* A status request rejected: the await throws out of the callback.
StatusRejected(r) ==
    /\ r \in inflight
    /\ r.kind = "status"
    /\ unhandled' = unhandled \cup {[call |-> r.call, reason |-> "AxiosError"]}
    /\ inflight' = inflight \ {r}
    /\ UNCHANGED <<store, storage, scans, cleans, sent, backend, calls, now, limits, inits, toasts, hookVars>>

\* The results request resolved with the results the backend holds.
ResultsResolved(r) ==
    /\ r \in inflight
    /\ r.kind = "results"
    /\ LET id == scans[r.call].scanId IN
        Set(completedPatch(store, scanResultOf(id, backend[id].results, now)))
    /\ inflight' = inflight \ {r}
    /\ UNCHANGED <<scans, cleans, sent, backend, unhandled, calls, now, limits, inits, toasts, hookVars>>

\* The results request rejected: the await throws out of the callback.
ResultsRejected(r) ==
    /\ r \in inflight
    /\ r.kind = "results"
    /\ unhandled' = unhandled \cup {[call |-> r.call, reason |-> "AxiosError"]}
    /\ inflight' = inflight \ {r}
    /\ UNCHANGED <<store, storage, scans, cleans, sent, backend, calls, now, limits, inits, toasts, hookVars>>

\* A scan call is active while its POST, its timer or one of its requests is.
Active(c) ==
    \/ scans[c].timer
    \/ \E r \in inflight : r.kind \in {"start", "status", "results"} /\ r.call = c

\* stopScan()
StopScan ==
    /\ Set(stopScanPatch)
    /\ scans' = [c \in Calls |->
                    [scans[c] EXCEPT !.timer = timerAfterStop(scans[c].timer),
                                     !.stopped = @ \/ Active(c)]]
    /\ UNCHANGED <<cleans, inflight, sent, backend, unhandled, calls, now, limits, inits, toasts, hookVars>>

----------------------------------------------------------------------------
(* The scan page *)

\* Variant of startOffered: the start button is always shown.
startOffered_always(st) == TRUE

\* {!isScanning ? <button onClick={handleStartScan}> : <stop button>}
startOffered(st) == ~st.isScanning

\* handleStartScan, run by a click on the start button, with the enabled
\* categories (the button is disabled when there are none).
HandleStartScan(categories) ==
    /\ startOffered(store)
    /\ Len(categories) > 0
    /\ StartScan(categories)

----------------------------------------------------------------------------
(* The backend: an accepted scan runs, then completes with results or fails. *)

BackendCompletes(id, results) ==
    /\ backend[id].status = "running"
    /\ results \in ResultsPayloads(id)
    /\ backend' = [backend EXCEPT ![id] = [status |-> "completed", results |-> results]]
    /\ UNCHANGED <<store, storage, scans, cleans, inflight, sent, unhandled, calls, now, limits, inits, toasts, hookVars>>

BackendFails(id) ==
    /\ backend[id].status = "running"
    /\ backend' = [backend EXCEPT ![id] = [status |-> "failed"]]
    /\ UNCHANGED <<store, storage, scans, cleans, inflight, sent, unhandled, calls, now, limits, inits, toasts, hookVars>>

----------------------------------------------------------------------------
(* The other store operations *)

\* setScanResult(result), called by the bridge for a pushed scan-complete event
SetScanResult(result) ==
    /\ calls < limits.calls
    /\ calls' = calls + 1
    /\ Set(setScanResultPatch(store, result))
    /\ UNCHANGED <<scans, cleans, inflight, sent, backend, unhandled, now, limits, inits, toasts, hookVars>>

SelectItem(path) ==
    /\ calls < limits.calls
    /\ calls' = calls + 1
    /\ Set(selectItemPatch(store, path))
    /\ UNCHANGED <<scans, cleans, inflight, sent, backend, unhandled, now, limits, inits, toasts, hookVars>>

DeselectItem(path) ==
    /\ Set(deselectItemPatch(store, path))
    /\ UNCHANGED <<scans, cleans, inflight, sent, backend, unhandled, calls, now, limits, inits, toasts, hookVars>>

SelectAll ==
    /\ IF store.currentScan # Null
       THEN Set(selectAllPatch(store))
       ELSE UNCHANGED <<store, storage>>
    /\ UNCHANGED <<scans, cleans, inflight, sent, backend, unhandled, calls, now, limits, inits, toasts, hookVars>>

DeselectAll ==
    /\ Set(deselectAllPatch)
    /\ UNCHANGED <<scans, cleans, inflight, sent, backend, unhandled, calls, now, limits, inits, toasts, hookVars>>

\* updateSettings(settings)
UpdateSettings(settings) ==
    /\ calls < limits.calls
    /\ calls' = calls + 1
    /\ Set(settings)
    /\ UNCHANGED <<scans, cleans, inflight, sent, backend, unhandled, now, limits, inits, toasts, hookVars>>

\* startCleaning() up to its first await, or to its early return.
StartCleaning ==
    /\ calls < limits.calls
    /\ calls' = calls + 1
    /\ LET k == Len(cleans) + 1
           currentScan == store.currentScan
           selectedItems == store.selectedItems
       IN
        IF cleaningSkipped(store)
        THEN /\ cleans' = Append(cleans,
                    [skipped |-> TRUE, promise |-> "resolved", error |-> NoError])
             /\ UNCHANGED <<store, storage, inflight, sent>>
        ELSE /\ Set(startCleaningPatch)
             /\ Send(Req(<<"startCleaning", k>>, "POST", cleanStartUrl,
                         startCleaningBody(currentScan, selectedItems)))
             /\ inflight' = inflight \cup {CleanReq(k)}
             /\ cleans' = Append(cleans,
                    [skipped |-> FALSE, promise |-> "pending", error |-> NoError])
    /\ UNCHANGED <<scans, backend, unhandled, now, limits, inits, toasts, hookVars>>

\* The POST of startCleaning resolved.
CleanResolved(k) ==
    /\ CleanReq(k) \in inflight
    /\ Set(cleanedPatch)
    /\ cleans' = [cleans EXCEPT ![k].promise = "resolved"]
    /\ inflight' = inflight \ {CleanReq(k)}
    /\ UNCHANGED <<scans, sent, backend, unhandled, calls, now, limits, inits, toasts, hookVars>>

\* The POST of startCleaning rejected: the catch block resets the flag and
\* re-throws.
CleanRejected(k, err) ==
    /\ CleanReq(k) \in inflight
    /\ Set(cleanCatchPatch)
    /\ cleans' = [cleans EXCEPT ![k].promise = "rejected", ![k].error = rethrown(err)]
    /\ inflight' = inflight \ {CleanReq(k)}
    /\ UNCHANGED <<scans, sent, backend, unhandled, calls, now, limits, inits, toasts, hookVars>>

----------------------------------------------------------------------------
(* The bridge to the server's pushed events *)

\* handleScanComplete(data), the listener of 'scan_complete': it hands the
\* data to setScanResult, shows a toast and dispatches 'scan-complete'.
HandleScanComplete(data) ==
    /\ calls < limits.calls
    /\ calls' = calls + 1
    /\ Set(setScanResultPatch(store, data))
    /\ toasts' = Append(toasts, << "Scan abgeschlossen! ",
                                   ToString(data.total_files),
                                   " Dateien gefunden." >>)
    /\ signals' = Append(signals, [type |-> "scan-complete", detail |-> data])
    /\ UNCHANGED <<scans, cleans, inflight, sent, backend, unhandled, now,
                   limits, inits>>
    /\ UNCHANGED <<socketio, websocket, query, hologram, burstLog>>

\* The server pushes the completion of a scan it holds as completed.
ScanCompletePushed(data) ==
    /\ backend[data.scan_id].status = "completed"
    /\ backend[data.scan_id].results.total_files = data.total_files
    /\ HandleScanComplete(data)

----------------------------------------------------------------------------
(* The HTTP client: the response interceptor *)

\* AxiosError values: an answer with an error status and, possibly, a detail
\* in its body; no answer at all; a request that could not be set up.
ResponseErrorOf(status, detail) ==
    [ response |-> [status |-> status, data |-> detail],
      message  |-> "Request failed with status code" ]

NoResponseError == [request |-> TRUE, message |-> "Network Error"]

SetupError == [message |-> "Invalid URL"]

ErrorStatuses == {400, 401, 403, 404, 500, 418, 503}

\* Bodies of error answers: with a detail, without one.
ErrorBodies == { [detail |-> "Scan not found"], [code |-> 7] }

HttpErrors ==
    { ResponseErrorOf(status, data) : status \in ErrorStatuses, data \in ErrorBodies }
        \cup {NoResponseError, SetupError}

\* (error.response.data as any)?.detail || error.message
messageOf(error) ==
    IF "detail" \in DOMAIN error.response.data
    THEN error.response.data.detail
    ELSE error.message

\* Variant of statusToast: 404 is not told apart from the other statuses.
statusToast_no404(status, message) ==
    CASE status = 400 -> << "Ungueltige Anfrage: ", message >>
      [] status = 401 -> << "Nicht autorisiert. Bitte melden Sie sich an." >>
      [] status = 403 -> << "Zugriff verweigert. Premium-Feature?" >>
      [] status = 500 -> << "Serverfehler. Bitte versuchen Sie es spaeter erneut." >>
      [] OTHER        -> << "Fehler: ", message >>

\* switch (status): the text given to toast.error, as its literal part
\* followed by what is appended to it (umlauts are written ue and ae).
statusToast(status, message) ==
    CASE status = 400 -> << "Ungueltige Anfrage: ", message >>
      [] status = 401 -> << "Nicht autorisiert. Bitte melden Sie sich an." >>
      [] status = 403 -> << "Zugriff verweigert. Premium-Feature?" >>
      [] status = 404 -> << "Ressource nicht gefunden" >>
      [] status = 500 -> << "Serverfehler. Bitte versuchen Sie es spaeter erneut." >>
      [] OTHER        -> << "Fehler: ", message >>

\* The notification the error handler of the response interceptor shows.
errorToast_oneText(error) ==
    IF "response" \in DOMAIN error
    THEN statusToast(error.response.status, messageOf(error))
    ELSE << "Keine Verbindung zum Server. Ist der API-Server gestartet?" >>

errorToast(error) ==
    IF "response" \in DOMAIN error
    THEN statusToast(error.response.status, messageOf(error))
    ELSE IF "request" \in DOMAIN error
    THEN << "Keine Verbindung zum Server. Ist der API-Server gestartet?" >>
    ELSE << "Anfragefehler: ", error.message >>

\* return Promise.reject(error)
rejectionOf(error) == error

----------------------------------------------------------------------------
(* initialize *)

systemInfoUrl == << "/system/info" >>
scanHistoryUrl == << "/scan/history" >>
settingsUrl == << "/settings/default" >>

\* Bodies of 2xx answers to the three requests of initialize.
InfoPayloads == { [os |-> "linux"], [os |-> "windows"] }

HistoryEntry ==
    [ scan_id |-> 2, status |-> "completed", total_files |-> 7,
      total_size |-> 70, categories |-> CatsNone, timestamp |-> 0 ]

HistoryPayloads == { [scans |-> << HistoryEntry >>], [total |-> 0], Null }

SettingsPayloads ==
    { [ auto_scan_enabled |-> FALSE, data_sharing_enabled |-> FALSE,
        theme |-> "light", language |-> "en" ],
      [ auto_scan_enabled |-> TRUE, data_sharing_enabled |-> FALSE ] }

\* What reading .scans of a null body throws.
TypeErrorOf(message) == [name |-> "TypeError", message |-> message]

\* Variant of infoPatch: the answer is dropped.
infoPatch_flagOnly(data) == [isInitialized |-> TRUE]

\* set({ systemInfo: response.data, isInitialized: true })
infoPatch(data) == [systemInfo |-> data, isInitialized |-> TRUE]

\* set({ scanHistory: historyResponse.data.scans || [] })
historyPatch(data) ==
    [scanHistory |-> IF "scans" \in DOMAIN data THEN data.scans ELSE << >>]

\* the set({...}) of the settings answer
settingsPatch(data) ==
    [ autoScan    |-> data.auto_scan_enabled,
      dataSharing |-> data.data_sharing_enabled,
      theme       |-> IF "theme" \in DOMAIN data THEN data.theme ELSE "dark",
      language    |-> IF "language" \in DOMAIN data THEN data.language ELSE "de" ]

\* Variant of initializeCatchPatch: the catch block leaves the flag alone.
initializeCatchPatch_unmarked == [isInitialized |-> FALSE]

\* the catch block of initialize
initializeCatchPatch == [isInitialized |-> TRUE]

InitCalls == 1..Len(inits)

InitReq(i, step) == [kind |-> step, call |-> <<"initialize", i>>, n |-> 0]

\* initialize() up to its first await.
Initialize ==
    /\ calls < limits.calls
    /\ calls' = calls + 1
    /\ LET i == Len(inits) + 1 IN
        /\ Send(Req(<<"initialize", i>>, "GET", systemInfoUrl, Null))
        /\ inflight' = inflight \cup {InitReq(i, "info")}
        /\ inits' = Append(inits,
               [promise |-> "pending", rejection |-> Null, caught |-> Null])
    /\ UNCHANGED <<store, storage, scans, cleans, backend, unhandled, now, limits, toasts, hookVars>>

\* GET /system/info resolved.
InfoResolved(i, data) ==
    /\ InitReq(i, "info") \in inflight
    /\ Set(infoPatch(data))
    /\ Send(Req(<<"initialize", i>>, "GET", scanHistoryUrl, Null))
    /\ inflight' = (inflight \ {InitReq(i, "info")}) \cup {InitReq(i, "history")}
    /\ UNCHANGED <<scans, cleans, backend, unhandled, calls, now, limits, inits, toasts, hookVars>>

\* GET /scan/history resolved; reading .scans of a null body throws, which
\* the catch block of initialize handles.
HistoryResolved(i, data) ==
    /\ InitReq(i, "history") \in inflight
    /\ IF data = Null
       THEN /\ Set(initializeCatchPatch)
            /\ inflight' = inflight \ {InitReq(i, "history")}
            /\ inits' = [inits EXCEPT ![i].promise = "resolved",
                                      ![i].caught =
                                          TypeErrorOf("Cannot read properties of null")]
            /\ UNCHANGED sent
       ELSE /\ Set(historyPatch(data))
            /\ Send(Req(<<"initialize", i>>, "GET", settingsUrl, Null))
            /\ inflight' = (inflight \ {InitReq(i, "history")})
                               \cup {InitReq(i, "settings")}
            /\ UNCHANGED inits
    /\ UNCHANGED <<scans, cleans, backend, unhandled, calls, now, limits, toasts, hookVars>>

\* GET /settings/default resolved: the try block ends, initialize resolves.
SettingsResolved(i, data) ==
    /\ InitReq(i, "settings") \in inflight
    /\ Set(settingsPatch(data))
    /\ inflight' = inflight \ {InitReq(i, "settings")}
    /\ inits' = [inits EXCEPT ![i].promise = "resolved"]
    /\ UNCHANGED <<scans, cleans, sent, backend, unhandled, calls, now, limits, toasts, hookVars>>

\* A request of initialize fails: the error handler of the response
\* interceptor shows its notification and returns the rejected promise.
InterceptError(r, error) ==
    /\ r \in inflight
    /\ r.call[1] = "initialize"
    /\ toasts' = Append(toasts, errorToast(error))
    /\ inits' = [inits EXCEPT ![r.call[2]].rejection = rejectionOf(error)]
    /\ inflight' = inflight \ {r}
    /\ UNCHANGED <<store, storage, scans, cleans, sent, backend, unhandled, calls, now, limits, hookVars>>

\* The await of initialize throws the rejection: the catch block.
InitializeCaught(i) ==
    /\ inits[i].promise = "pending"
    /\ inits[i].rejection # Null
    /\ Set(initializeCatchPatch)
    /\ inits' = [inits EXCEPT ![i].promise = "resolved",
                              ![i].caught = inits[i].rejection]
    /\ UNCHANGED <<scans, cleans, inflight, sent, backend, unhandled, calls, now, limits, toasts, hookVars>>

----------------------------------------------------------------------------
(* Reload of the page *)

\* The store a reload constructs: initialState with the saved part merged in
\* by the persist middleware.
hydrated(saved) == Spread(initialState, saved)

\* The page is loaded again: everything the script held is gone, the store
\* is built from initialState and local storage.
Reload ==
    /\ calls < limits.calls
    /\ calls' = calls + 1
    /\ Set(hydrated(storage))
    /\ scans' = << >>
    /\ cleans' = << >>
    /\ inits' = << >>
    /\ inflight' = {}
    /\ sent' = EmptyBag
    /\ unhandled' = {}
    /\ toasts' = << >>
    /\ socketio' = socketioInitialState
    /\ websocket' = websocketInitialState
    /\ signals' = << >>
    /\ query' = queryInitialState
    /\ hologram' = hologramInitialState
    /\ burstLog' = burstLogInitialState
    /\ UNCHANGED <<backend, now, limits>>

----------------------------------------------------------------------------
(* Spec: the life of a scan, from startScan through the poll timer. *)

Init ==
    /\ InitProgram
    /\ limits = [calls |-> MaxScans, ticks |-> MaxTicks]

Next ==
    \/ \E cats \in CategoryLists : StartScan(cats)
    \/ \E c \in Calls : StartResolved(c)
    \/ \E c \in Calls, err \in Errors : StartRejected(c, err)
    \/ \E c \in Calls : PollTick(c)
    \/ \E r \in inflight : StatusResolved(r)
    \/ \E r \in inflight : StatusRejected(r)
    \/ \E r \in inflight : ResultsResolved(r)
    \/ \E r \in inflight : ResultsRejected(r)
    \/ StopScan
    \/ \E id \in ScanIds : \E results \in ResultsPayloads(id) : BackendCompletes(id, results)
    \/ \E id \in ScanIds : BackendFails(id)

Spec == Init /\ [][Next]_vars

----------------------------------------------------------------------------
(* SpecStore: the store as the pages and the bridge drive it.  Scan results *)
(* arrive as pushed events; the poll timer of an accepted scan is the      *)
(* subject of Spec and does not fire here.                                 *)

InitStore ==
    /\ InitProgram
    /\ limits = [calls |-> MaxStoreCalls, ticks |-> 0]

NextStore ==
    \/ \E cats \in CategoryLists : StartScan(cats)
    \/ \E c \in Calls : StartResolved(c)
    \/ \E c \in Calls, err \in Errors : StartRejected(c, err)
    \/ StopScan
    \/ \E result \in PushPayloads : SetScanResult(result)
    \/ \E path \in Paths : SelectItem(path)
    \/ \E path \in Paths : DeselectItem(path)
    \/ SelectAll
    \/ DeselectAll
    \/ \E settings \in SettingsPatches : UpdateSettings(settings)
    \/ StartCleaning
    \/ \E k \in CleanCalls : CleanResolved(k)
    \/ \E k \in CleanCalls, err \in Errors : CleanRejected(k, err)

SpecStore == InitStore /\ [][NextStore]_vars

----------------------------------------------------------------------------
(* SpecOverlap: scans started from the page and directly on the store,     *)
(* while the backend keeps every accepted scan running.                    *)

InitOverlap ==
    /\ InitProgram
    /\ limits = [calls |-> MaxOverlap, ticks |-> MaxOverlap]

NextOverlap ==
    \/ \E cats \in CategoryLists : HandleStartScan(cats)
    \/ \E cats \in CategoryLists : StartScan(cats)
    \/ \E c \in Calls : StartResolved(c)
    \/ \E c \in Calls, err \in Errors : StartRejected(c, err)
    \/ \E c \in Calls : PollTick(c)
    \/ \E r \in inflight : StatusResolved(r)
    \/ \E r \in inflight : StatusRejected(r)
    \/ StopScan

SpecOverlap == InitOverlap /\ [][NextOverlap]_vars

----------------------------------------------------------------------------
(* SpecPush: one scan whose end the poll timer and the pushed event both   *)
(* report.                                                                 *)

InitPush ==
    /\ InitProgram
    /\ limits = [calls |-> MaxPushCalls, ticks |-> MaxPushTicks]

NextPush ==
    \/ \E cats \in CategoryLists : StartScan(cats)
    \/ \E c \in Calls : StartResolved(c)
    \/ \E c \in Calls, err \in Errors : StartRejected(c, err)
    \/ \E c \in Calls : PollTick(c)
    \/ \E r \in inflight : StatusResolved(r)
    \/ \E r \in inflight : StatusRejected(r)
    \/ \E r \in inflight : ResultsResolved(r)
    \/ \E r \in inflight : ResultsRejected(r)
    \/ \E id \in ScanIds : \E results \in ResultsPayloads(id) : BackendCompletes(id, results)
    \/ \E id \in ScanIds : BackendFails(id)
    \/ \E data \in PushPayloads : ScanCompletePushed(data)

SpecPush == InitPush /\ [][NextPush]_vars

----------------------------------------------------------------------------
(* SpecSelect: the selection under selectItem and deselectItem.            *)

\* Arguments of selectItem and deselectItem.
SelectPaths == {"/tmp/a", "/tmp/b", "/tmp/test.file"}

InitSelect ==
    /\ InitProgram
    /\ limits = [calls |-> MaxSelectCalls, ticks |-> 0]

NextSelect ==
    \/ \E path \in SelectPaths : SelectItem(path)
    \/ \E path \in SelectPaths : DeselectItem(path)

SpecSelect == InitSelect /\ [][NextSelect]_vars

----------------------------------------------------------------------------
(* SpecInit: the start of the application, the preferences and reloads.    *)

\* The failures of a request that SpecInit tells apart.
InitErrors == { ResponseErrorOf(500, [code |-> 7]), NoResponseError }

InitInit ==
    /\ InitProgram
    /\ limits = [calls |-> MaxInitCalls, ticks |-> 0]

NextInit ==
    \/ Initialize
    \/ \E i \in InitCalls, data \in InfoPayloads : InfoResolved(i, data)
    \/ \E i \in InitCalls, data \in HistoryPayloads : HistoryResolved(i, data)
    \/ \E i \in InitCalls, data \in SettingsPayloads : SettingsResolved(i, data)
    \/ \E r \in inflight, error \in InitErrors : InterceptError(r, error)
    \/ \E i \in InitCalls : InitializeCaught(i)
    \/ \E settings \in SettingsPatches : UpdateSettings(settings)
    \/ Reload

SpecInit == InitInit /\ [][NextInit]_vars

----------------------------------------------------------------------------
(* SpecHttp: the requests of initialize against every kind of failure.     *)

InitHttp ==
    /\ InitProgram
    /\ limits = [calls |-> MaxHttpCalls, ticks |-> 0]

NextHttp ==
    \/ Initialize
    \/ \E i \in InitCalls, data \in InfoPayloads : InfoResolved(i, data)
    \/ \E i \in InitCalls, data \in HistoryPayloads : HistoryResolved(i, data)
    \/ \E i \in InitCalls, data \in SettingsPayloads : SettingsResolved(i, data)
    \/ \E r \in inflight, error \in HttpErrors : InterceptError(r, error)
    \/ \E i \in InitCalls : InitializeCaught(i)

SpecHttp == InitHttp /\ [][NextHttp]_vars

----------------------------------------------------------------------------
(* Counting requests and history entries *)

\* The number of requests in bag that satisfy Test.
CountIn(bag, Test(_)) ==
    LET D == {r \in BagToSet(bag) : Test(r)}
    IN  BagCardinality([r \in D |-> bag[r]])

PostsOf(bag, c) ==
    CountIn(bag, LAMBDA r : r.origin = <<"startScan", c>> /\ r.method = "POST")

StatusGetsOf(bag, c) ==
    CountIn(bag, LAMBDA r : r.origin = <<"startScan", c>> /\ r.method = "GET"
                            /\ r.url[1] = "/scan/status")

ResultsGetsOf(bag, c) ==
    CountIn(bag, LAMBDA r : r.origin = <<"startScan", c>> /\ r.method = "GET"
                            /\ r.url[1] = "/scan/results")

HistoryEntriesOf(history, id) ==
    Cardinality({i \in 1..Len(history) : history[i].scan_id = id})

ObservedStatus(c) ==
    IF scans[c].observed = Null THEN "none" ELSE scans[c].observed.status

\* The requests of scan call c that settle in a step.
Settled(c, kinds) ==
    {r \in inflight : r.call = c /\ r.kind \in kinds /\ r \notin inflight'}

----------------------------------------------------------------------------
(* Claims about the life of a scan *)

\* C1: every call of startScan sets isScanning and hands the HTTP client
\* exactly one POST, to /scan/start, whose body holds the categories given,
\* enable_ai true and user_id 'default'; the call never issues another POST.
C1_StartScanPostsOnce ==
    [][ /\ Len(scans') = Len(scans) + 1 => store'.isScanning = TRUE
        /\ \A c \in 1..Len(scans') :
             /\ PostsOf(sent', c) = 1
             /\ CopiesIn([ origin |-> <<"startScan", c>>,
                           method |-> "POST",
                           url    |-> << "/scan/start" >>,
                           body   |-> [ categories |-> scans'[c].categories,
                                        enable_ai  |-> TRUE,
                                        user_id    |-> "default" ] ], sent') = 1
      ]_vars

C1_Witness ==
    \E c \in Calls :
        /\ scans[c].categories = <<"temp_files", "system_cache">>
        /\ store.isScanning
        /\ scans[c].polls > 0
        /\ PostsOf(sent, c) = 1

\* C2: a scan whose completion a poll has observed has exactly one results
\* request and at most one entry in scanHistory, however ticks and
\* responses interleave.
C2_OneFetchOneEntry ==
    \A c \in Calls :
        ObservedStatus(c) = "completed" =>
            /\ ResultsGetsOf(sent, c) = 1
            /\ HistoryEntriesOf(store.scanHistory, scans[c].scanId) <= 1

\* C3: once a poll has returned completed with total_files N and every
\* request of the scan has settled, isScanning is false, currentScan is the
\* record of that scan with total_files N, and scanHistory holds that record
\* as its one new, last entry.
C3_CompletedStore ==
    \A c \in Calls :
        (ObservedStatus(c) = "completed" /\ ~\E r \in inflight : r.call = c) =>
            /\ store.isScanning = FALSE
            /\ store.currentScan # Null
            /\ store.currentScan.scan_id = scans[c].scanId
            /\ store.currentScan.total_files = scans[c].observed.total_files
            /\ HistoryEntriesOf(store.scanHistory, scans[c].scanId) = 1
            /\ store.scanHistory[Len(store.scanHistory)] = store.currentScan

\* C4: the step in which a poll first observes failed sets isScanning false,
\* leaves scanHistory and currentScan alone and sends nothing; from then on
\* the timer is off, and no status or results request is issued for the scan.
C4_FailedStopsPolling ==
    [][ \A c \in Calls :
          ObservedStatus(c)' = "failed" =>
            /\ ~scans'[c].timer
            /\ ResultsGetsOf(sent', c) = 0
            /\ StatusGetsOf(sent', c) = StatusGetsOf(sent, c)
            /\ ObservedStatus(c) = "none" =>
                 /\ store'.isScanning = FALSE
                 /\ store'.scanHistory = store.scanHistory
                 /\ store'.currentScan = store.currentScan
                 /\ sent' = sent
      ]_vars

C4_Witness ==
    \E c \in Calls :
        /\ ObservedStatus(c) = "failed"
        /\ ~store.isScanning
        /\ ~scans[c].timer
        /\ scans[c].polls = 2
        /\ ~\E r \in inflight : r.call = c

\* C5: when a poll has observed failed, the promise startScan returned is
\* rejected, so that the caller's catch block runs.
C5_FailureReachesCaller ==
    \A c \in Calls :
        ObservedStatus(c) = "failed" =>
            /\ scans[c].promise = "rejected"
            /\ toastOf(scans[c].promise) = "Fehler beim Starten des Scans"

\* C6: when the backend holds a terminal status for every accepted scan and
\* nothing is left to run (no timer, no request in flight), isScanning is
\* false, whatever the outcomes of the individual requests were.
C6_NeverStuckScanning ==
    ( /\ \E c \in Calls : scans[c].scanId # 0
      /\ \A c \in Calls :
           /\ ~Active(c)
           /\ scans[c].scanId # 0 => backend[scans[c].scanId].status \in Terminal )
    => store.isScanning = FALSE

\* C7: each firing of the timer issues exactly one GET of /scan/status/<id>;
\* the timer is switched off only by a poll that observed completed or
\* failed (no timeout, no other operation ends it); and a status request that
\* settles while the scan is not terminal changes no store field.
C7_PollsUntilTerminal ==
    [][ \A c \in Calls :
          /\ scans'[c].polls # scans[c].polls =>
               /\ scans'[c].polls = scans[c].polls + 1
               /\ sent' = sent (+) SetToBag({[ origin |-> <<"startScan", c>>,
                                               method |-> "GET",
                                               url    |-> << "/scan/status", scans[c].scanId >>,
                                               body   |-> Null ]})
          /\ (scans[c].timer /\ ~scans'[c].timer) => ObservedStatus(c)' \in Terminal
          /\ (scans'[c].scanId # 0 /\ ObservedStatus(c)' = "none") => scans'[c].timer
          /\ ( /\ Settled(c, {"status"}) # {}
               /\ backend[scans[c].scanId].status \notin Terminal )
             => (store' = store /\ scans'[c].timer = scans[c].timer)
      ]_vars

C7_Witness ==
    \E c \in Calls :
        /\ scans[c].polls = 2
        /\ scans[c].timer
        /\ ObservedStatus(c) = "none"
        /\ unhandled = {}
        /\ ~\E r \in inflight : r.call = c

\* C8: once stopScan has been called during an active scan, no poll is
\* issued for that scan any more, and no response of that scan changes
\* currentScan, scanHistory or isScanning.
C8_StopHaltsPolling ==
    [][ \A c \in Calls :
          scans[c].stopped =>
            /\ scans'[c].polls = scans[c].polls
            /\ Settled(c, {"start", "status", "results"}) # {} =>
                 /\ store'.currentScan = store.currentScan
                 /\ store'.scanHistory = store.scanHistory
                 /\ store'.isScanning = store.isScanning
      ]_vars

----------------------------------------------------------------------------
(* Claims about the store as a whole *)

StoreFields == DOMAIN initialState

\* C9: a call of stopScan leaves isScanning false, changes no other field of
\* the store, and hands nothing to the HTTP client.
C9_StopScanFrame ==
    [][ StopScan =>
          /\ store'.isScanning = FALSE
          /\ DOMAIN store' = StoreFields
          /\ \A f \in StoreFields \ {"isScanning"} : store'[f] = store[f]
          /\ sent' = sent
          /\ inflight' = inflight
      ]_vars

C9_Witness ==
    /\ \E c \in Calls : scans[c].stopped
    /\ store.isScanning = FALSE
    /\ store.isCleaning = TRUE
    /\ store.currentScan # Null
    /\ Len(store.selectedItems) = 2

\* C10: when the POST of startScan is rejected, isScanning is false after
\* the handler, the call has no poll timer and its promise is rejected with
\* the error of the POST; when the POST of startCleaning is rejected,
\* isCleaning is false after the handler, selectedItems and currentScan are
\* as before it, and the promise is rejected with the error of the POST.
C10_RejectedStartResets ==
    [][ /\ \A c \in Calls, err \in Errors :
             StartRejected(c, err) =>
               /\ store'.isScanning = FALSE
               /\ scans'[c].promise = "rejected"
               /\ scans'[c].error = err
        /\ \A c \in Calls :
             scans'[c].promise = "rejected" =>
               (~scans'[c].timer /\ scans'[c].scanId = 0 /\ StatusGetsOf(sent', c) = 0)
        /\ \A k \in CleanCalls, err \in Errors :
             CleanRejected(k, err) =>
               /\ store'.isCleaning = FALSE
               /\ store'.selectedItems = store.selectedItems
               /\ store'.currentScan = store.currentScan
               /\ cleans'[k].promise = "rejected"
               /\ cleans'[k].error = err
      ]_vars

C10_Witness ==
    /\ \E c \in Calls : scans[c].promise = "rejected" /\ scans[c].error = "http500"
    /\ \E k \in CleanCalls : cleans[k].promise = "rejected" /\ cleans[k].error = "network"
    /\ store.isScanning = FALSE
    /\ store.isCleaning = FALSE
    /\ Len(store.selectedItems) = 2
    /\ store.currentScan # Null

----------------------------------------------------------------------------
(* Claims about cleaning *)

CleanPostsOf(bag, k) ==
    CountIn(bag, LAMBDA r : r.origin = <<"startCleaning", k>> /\ r.method = "POST")

\* The requests a step hands to the HTTP client.
NewRequests == sent' (-) sent

\* C11: a call of startCleaning made while selectedItems is empty or
\* currentScan is null hands nothing to the HTTP client and leaves every
\* field of the store as it was; isCleaning is not set.
C11_SkippedCleaningIsNoOp ==
    [][ (StartCleaning /\ (Len(store.selectedItems) = 0 \/ store.currentScan = Null)) =>
          /\ store' = store
          /\ store'.isCleaning = store.isCleaning
          /\ sent' = sent
          /\ inflight' = inflight
      ]_vars

C11_Witness ==
    /\ \E k \in CleanCalls : cleans[k].skipped
    /\ store.currentScan # Null
    /\ Len(store.selectedItems) = 0
    /\ store.isCleaning = FALSE
    /\ \A k \in CleanCalls : CleanPostsOf(sent, k) = 0

\* C12: a call of startCleaning made with a current scan and a non-empty
\* selection hands the HTTP client exactly one request, a POST to
\* /clean/start with the scan_id of currentScan, the selectedItems of the
\* moment of the call and create_backup true, and the call never issues
\* another; the step in which that POST resolves leaves isCleaning false,
\* selectedItems empty and currentScan null.
C12_CleaningPostsSelection ==
    [][ /\ (StartCleaning /\ Len(store.selectedItems) > 0 /\ store.currentScan # Null) =>
             /\ BagCardinality(NewRequests) = 1
             /\ \A r \in BagToSet(NewRequests) :
                  /\ r.method = "POST"
                  /\ r.url = << "/clean/start" >>
                  /\ r.body.scan_id = store.currentScan.scan_id
                  /\ r.body.selected_items = store.selectedItems
                  /\ r.body.create_backup = TRUE
        /\ \A k \in 1..Len(cleans') :
             CleanPostsOf(sent', k) = IF cleans'[k].skipped THEN 0 ELSE 1
        /\ \A k \in CleanCalls :
             CleanResolved(k) =>
               /\ store'.isCleaning = FALSE
               /\ store'.selectedItems = << >>
               /\ store'.currentScan = Null
               /\ sent' = sent
      ]_vars

C12_Witness ==
    /\ \E k \in CleanCalls : ~cleans[k].skipped /\ cleans[k].promise = "resolved"
    /\ \E r \in BagToSet(sent) :
         /\ r.url = << "/clean/start" >>
         /\ r.body.scan_id = 3
         /\ r.body.selected_items = << "/tmp/a", "/tmp/b" >>
    /\ store.isCleaning = FALSE
    /\ store.selectedItems = << >>
    /\ store.currentScan = Null

\* C13: no step of startCleaning (the call, the resolved POST, the rejected
\* POST) changes scanHistory, and no request of startCleaning goes to
\* /scan/history.
C13_CleaningKeepsHistory ==
    [][ /\ ( \/ StartCleaning
             \/ \E k \in CleanCalls : CleanResolved(k)
             \/ \E k \in CleanCalls, err \in Errors : CleanRejected(k, err) ) =>
               /\ store'.scanHistory = store.scanHistory
               /\ \A r \in BagToSet(NewRequests) : r.url # << "/scan/history" >>
        /\ \A r \in BagToSet(sent') :
             r.origin[1] = "startCleaning" => r.url # << "/scan/history" >>
      ]_vars

C13_Witness ==
    /\ \E k \in CleanCalls : ~cleans[k].skipped /\ cleans[k].promise = "rejected"
    /\ \E k \in CleanCalls : ~cleans[k].skipped /\ cleans[k].promise = "resolved"
    /\ Len(store.scanHistory) = 1

----------------------------------------------------------------------------
(* Claims about initialize, the saved preferences and the HTTP client *)

InitGetsOf(bag, i, url) ==
    CountIn(bag, LAMBDA r : r.origin = <<"initialize", i>> /\ r.method = "GET"
                            /\ r.url = url)

InitRequestsOf(bag, i) ==
    CountIn(bag, LAMBDA r : r.origin = <<"initialize", i>>)

\* Whether call i of initialize has met a failure.
Failed(i) == inits[i].rejection # Null \/ inits[i].caught # Null

\* C14: the promise of initialize is never rejected; the step that resolves
\* it leaves isInitialized true, whether its requests succeeded or failed;
\* and while it is pending one of its requests, or the rejection of one, is
\* still outstanding, so it resolves once its requests have settled.
C14_InitializeAlwaysResolves ==
    [][ \A i \in 1..Len(inits') :
          /\ inits'[i].promise \in {"pending", "resolved"}
          /\ ( /\ inits'[i].promise = "resolved"
               /\ (i > Len(inits) \/ inits[i].promise = "pending") )
             => store'.isInitialized = TRUE
          /\ inits'[i].promise = "pending" =>
               \/ \E r \in inflight' : r.call = <<"initialize", i>>
               \/ inits'[i].rejection # Null
      ]_vars

C14_Witness ==
    \E i \in InitCalls :
        /\ inits[i].promise = "resolved"
        /\ inits[i].caught = [request |-> TRUE, message |-> "Network Error"]
        /\ store.isInitialized = TRUE
        /\ store.systemInfo = Null
        /\ InitRequestsOf(sent, i) = 1

\* C15: every request of initialize is a GET; /system/info is requested at
\* the call, /scan/history only once the first has been answered and
\* /settings/default only once the second has, each at most once and never
\* two at a time; a call whose settings request resolved has made exactly
\* three requests; systemInfo is the body of the first answer; after a
\* failure the call makes no further request, and the steps that handle the
\* failure change no field of the store but isInitialized.
C15_InitializeInOrder ==
    [][ /\ \A i \in 1..Len(inits') :
             /\ InitGetsOf(sent', i, << "/system/info" >>) = 1
             /\ InitGetsOf(sent', i, << "/scan/history" >>) <= 1
             /\ InitGetsOf(sent', i, << "/settings/default" >>)
                    <= InitGetsOf(sent', i, << "/scan/history" >>)
             /\ InitRequestsOf(sent', i)
                    = InitGetsOf(sent', i, << "/system/info" >>)
                      + InitGetsOf(sent', i, << "/scan/history" >>)
                      + InitGetsOf(sent', i, << "/settings/default" >>)
             /\ Cardinality({r \in inflight' : r.call = <<"initialize", i>>}) <= 1
        /\ \A i \in InitCalls, data \in InfoPayloads :
             InfoResolved(i, data) => store'.systemInfo = data
        /\ \A i \in InitCalls, data \in SettingsPayloads :
             SettingsResolved(i, data) => InitRequestsOf(sent', i) = 3
        /\ \A i \in InitCalls :
             (Failed(i) /\ i <= Len(inits')) =>
                InitRequestsOf(sent', i) = InitRequestsOf(sent, i)
        /\ \A i \in InitCalls :
             (i <= Len(inits') /\ ~Failed(i) /\ Failed(i)') =>
                /\ sent' = sent
                /\ \A f \in StoreFields \ {"isInitialized"} : store'[f] = store[f]
        /\ \A i \in InitCalls :
             InitializeCaught(i) =>
                \A f \in StoreFields \ {"isInitialized"} : store'[f] = store[f]
      ]_vars

C15_Witness ==
    /\ \E i \in InitCalls :
         /\ inits[i].promise = "resolved"
         /\ inits[i].caught = Null
         /\ InitRequestsOf(sent, i) = 3
    /\ \E i \in InitCalls :
         /\ inits[i].promise = "resolved"
         /\ inits[i].caught # Null
         /\ InitRequestsOf(sent, i) = 2
    /\ store.systemInfo = [os |-> "windows"]
    /\ Len(store.scanHistory) = 1

\* The four preferences the persist options name.
Preferences == {"theme", "language", "autoScan", "dataSharing"}

\* C19: after every step the saved record has exactly the fields theme,
\* language, autoScan and dataSharing, each with the value the store holds
\* for it, and so none of the scan and clean fields; a reload leaves the
\* four preferences as they were and every other field at its initial value.
C19_OnlyPreferencesPersist ==
    [][ /\ DOMAIN storage' = {"theme", "language", "autoScan", "dataSharing"}
        /\ \A f \in DOMAIN storage' : storage'[f] = store'[f]
        /\ Reload =>
             /\ \A f \in Preferences : store'[f] = store[f]
             /\ \A f \in StoreFields \ Preferences : store'[f] = initialState[f]
      ]_vars

C19_Witness ==
    /\ store.theme = "light"
    /\ store.language = "en"
    /\ store.autoScan = FALSE
    /\ store.dataSharing = FALSE
    /\ storage.theme = "light"
    /\ store.isInitialized = FALSE
    /\ store.systemInfo = Null
    /\ store.scanHistory = << >>
    /\ inits = << >>

\* The literal part of the notification for an answer with status s.
MessageFor(s) ==
    CASE s = 400 -> "Ungueltige Anfrage: "
      [] s = 401 -> "Nicht autorisiert. Bitte melden Sie sich an."
      [] s = 403 -> "Zugriff verweigert. Premium-Feature?"
      [] s = 404 -> "Ressource nicht gefunden"
      [] s = 500 -> "Serverfehler. Bitte versuchen Sie es spaeter erneut."
      [] OTHER   -> "Fehler: "

\* C20: for an answer with an error status s the response interceptor shows
\* exactly one notification, whose message is fixed by s alone (one message
\* each for 400, 401, 403, 404 and 500, all different, and the generic one
\* for any other status; to the message for 400 and to the generic one the
\* detail of the answer, or else the text of the error, is appended); the
\* request is rejected with the very error the interceptor received, which
\* is what the caller catches; and the interceptor's step changes neither
\* the store nor the saved record.
C20_ToastByStatus ==
    [][ /\ \A r \in inflight, error \in HttpErrors :
             (InterceptError(r, error) /\ "response" \in DOMAIN error) =>
               /\ Len(toasts') = Len(toasts) + 1
               /\ SubSeq(toasts', 1, Len(toasts)) = toasts
               /\ toasts'[Len(toasts')][1] = MessageFor(error.response.status)
               /\ Len(toasts'[Len(toasts')]) =
                     IF error.response.status \in {401, 403, 404, 500} THEN 1 ELSE 2
               /\ Len(toasts'[Len(toasts')]) = 2 =>
                     toasts'[Len(toasts')][2] =
                        IF "detail" \in DOMAIN error.response.data
                        THEN error.response.data.detail ELSE error.message
               /\ inits'[r.call[2]].rejection = error
               /\ store' = store
               /\ storage' = storage
        /\ \A s, t \in {400, 401, 403, 404, 500, 418} :
             s # t => MessageFor(s) # MessageFor(t)
        /\ \A i \in InitCalls :
             InitializeCaught(i) => inits'[i].caught = inits[i].rejection
      ]_vars

C20_Witness ==
    /\ toasts = << << "Ressource nicht gefunden" >> >>
    /\ \E i \in InitCalls :
         /\ inits[i].promise = "resolved"
         /\ inits[i].caught = [ response |-> [ status |-> 404,
                                               data |-> [detail |-> "Scan not found"] ],
                                message |-> "Request failed with status code" ]
    /\ store.systemInfo # Null
    /\ store.isInitialized = TRUE

----------------------------------------------------------------------------
(* Claims about the selection *)

Occurrences(items, p) == Cardinality({i \in 1..Len(items) : items[i] = p})

\* C16: selectItem(p) adds one occurrence of p, so the selection contains
\* p afterwards (it does not deduplicate); deselectItem(p) leaves no
\* occurrence of p, however many there were, and what it leaves is exactly
\* the entries for the other paths, each occurrence of them, in the order
\* they had.
C16_DeselectRemovesAll ==
    [][ \A p \in SelectPaths :
          /\ SelectItem(p) =>
               /\ \E i \in 1..Len(store'.selectedItems) : store'.selectedItems[i] = p
               /\ Occurrences(store'.selectedItems, p)
                     = Occurrences(store.selectedItems, p) + 1
          /\ DeselectItem(p) =>
               LET before == store.selectedItems
                   after == store'.selectedItems
                   Kept == {j \in 1..Len(before) : before[j] # p}
               IN  /\ Occurrences(after, p) = 0
                   /\ Len(after) = Cardinality(Kept)
                   /\ \A j \in Kept :
                        after[Cardinality({m \in Kept : m <= j})] = before[j]
      ]_vars

C16_Witness ==
    /\ store.selectedItems = << "/tmp/b", "/tmp/a" >>
    /\ calls = 4

----------------------------------------------------------------------------
(* Claims about overlapping scans and pushed results *)

\* C17: startScan has no guard of its own: it can be called whenever the
\* store can be called, whatever isScanning is, and every call, also one
\* made while isScanning is true, is taken up (its promise is pending, not
\* rejected), sends its own start POST and, once that resolves, runs its own
\* poll timer next to those of the earlier calls, which go on untouched and
\* poll independently; only the scan page holds back, offering the start
\* action in no state where isScanning is true.
C17_NoGuardAgainstOverlap ==
    [][ /\ \A cats \in CategoryLists :
             /\ (calls < limits.calls) => ENABLED StartScan(cats)
             /\ StartScan(cats) =>
                  /\ Len(scans') = Len(scans) + 1
                  /\ scans'[Len(scans')].promise = "pending"
                  /\ PostsOf(sent', Len(scans')) = 1
                  /\ BagCardinality(NewRequests) = 1
                  /\ store'.isScanning = TRUE
                  /\ \A d \in Calls : scans'[d] = scans[d]
             /\ HandleStartScan(cats) => store.isScanning = FALSE
        /\ \A c \in Calls :
             StartResolved(c) =>
               /\ scans'[c].timer
               /\ \A d \in Calls \ {c} : scans'[d] = scans[d]
        /\ \A c \in Calls :
             PollTick(c) =>
               /\ StatusGetsOf(sent', c) = StatusGetsOf(sent, c) + 1
               /\ \A d \in Calls \ {c} :
                    /\ scans'[d] = scans[d]
                    /\ StatusGetsOf(sent', d) = StatusGetsOf(sent, d)
      ]_vars

C17_Witness ==
    /\ Len(scans) = 2
    /\ \A c \in Calls :
         /\ scans[c].timer
         /\ scans[c].polls = 1
         /\ ~scans[c].stopped
         /\ PostsOf(sent, c) = 1
    /\ scans[1].scanId # scans[2].scanId
    /\ store.isScanning = TRUE

\* C18: scanHistory never holds more than one entry for a scan, also when
\* a status poll and a pushed scan-complete event both report its end, in
\* whichever order they arrive.
C18_PollAndPushRecordOnce ==
    \A c \in Calls :
        scans[c].scanId # 0 =>
            HistoryEntriesOf(store.scanHistory, scans[c].scanId) <= 1

(***************************************************************************)
(* The hologram store                                                      *)
(***************************************************************************)

\* The arguments triggerBurst is called with: none, the two counts of the
\* demo buttons, and zero (a count that is not undefined but falsy).
BurstArgs == {<< >>, <<150>>, <<400>>, <<0>>}

\* The values setDefaultBurstCount is called with.
BurstDefaults == {40, 200}

\* count ?? s.defaultBurstCount
countOrDefault(s, args) ==
    IF Len(args) = 0 THEN s.defaultBurstCount ELSE args[1]

\* triggerBurst: pendingBursts: [...s.pendingBursts, count ?? default]
triggerBurstPatch(s, args) ==
    [pendingBursts |-> Push(s.pendingBursts, countOrDefault(s, args))]

\* consumeBurst: what it returns, null on an empty queue.
consumeBurstResult(s) ==
    IF Len(s.pendingBursts) = 0 THEN Null
    ELSE [value |-> Head(s.pendingBursts)]

\* consumeBurst: set({ pendingBursts: tail }), and no set on an empty queue.
consumeBurstPatch_dropsNewest(s) ==
    IF Len(s.pendingBursts) = 0 THEN << >>
    ELSE [pendingBursts |->
            SubSeq(s.pendingBursts, 1, Len(s.pendingBursts) - 1)]

consumeBurstPatch(s) ==
    IF Len(s.pendingBursts) = 0 THEN << >>
    ELSE [pendingBursts |-> Tail(s.pendingBursts)]

\* setDefaultBurstCount
setDefaultBurstCountPatch(n) == [defaultBurstCount |-> n]

TriggerBurst(args) ==
    /\ calls < limits.calls
    /\ calls' = calls + 1
    /\ hologram' = Spread(hologram, triggerBurstPatch(hologram, args))
    /\ burstLog' = [burstLog EXCEPT !.triggered =
                      Append(@, [args |-> args,
                                 default |-> hologram.defaultBurstCount])]
    /\ UNCHANGED <<store, scans, cleans, inflight, sent, backend, unhandled,
                   now, limits, inits, storage, toasts>>
    /\ UNCHANGED <<socketio, websocket, signals, query>>

ConsumeBurst ==
    /\ calls < limits.calls
    /\ calls' = calls + 1
    /\ hologram' = Spread(hologram, consumeBurstPatch(hologram))
    /\ burstLog' = [burstLog EXCEPT !.returned =
                      Append(@, consumeBurstResult(hologram))]
    /\ UNCHANGED <<store, scans, cleans, inflight, sent, backend, unhandled,
                   now, limits, inits, storage, toasts>>
    /\ UNCHANGED <<socketio, websocket, signals, query>>

SetDefaultBurstCount(n) ==
    /\ calls < limits.calls
    /\ calls' = calls + 1
    /\ hologram' = Spread(hologram, setDefaultBurstCountPatch(n))
    /\ UNCHANGED <<store, scans, cleans, inflight, sent, backend, unhandled,
                   now, limits, inits, storage, toasts>>
    /\ UNCHANGED <<socketio, websocket, signals, query, burstLog>>

(***************************************************************************)
(* Spec: the hologram store under triggerBurst, consumeBurst and           *)
(* setDefaultBurstCount.                                                   *)
(***************************************************************************)
InitHologram ==
    /\ InitProgram
    /\ limits = [calls |-> MaxBurstCalls, ticks |-> 0]

NextHologram ==
    \/ \E args \in BurstArgs : TriggerBurst(args)
    \/ ConsumeBurst
    \/ \E n \in BurstDefaults : SetDefaultBurstCount(n)

SpecHologram == InitHologram /\ [][NextHologram]_vars

(***************************************************************************)
(* Claims about the hologram store                                         *)
(***************************************************************************)

\* The count a logged triggerBurst call asked for: its argument, or the
\* default of the moment it was called.
Requested(t) == IF Len(t.args) = 0 THEN t.default ELSE t.args[1]

\* The counts consumeBurst handed out, the nulls left out.
RECURSIVE Handed(_)
Handed(returned) ==
    IF Len(returned) = 0 THEN << >>
    ELSE IF Head(returned) = Null THEN Handed(Tail(returned))
    ELSE <<Head(returned).value>> \o Handed(Tail(returned))

\* C30: pendingBursts is a FIFO queue.  The counts consumeBurst returned so
\* far, followed by the counts still pending, are the counts triggered, in the
\* order they were triggered, each once; a triggerBurst without a count stands
\* for the default at the time of the call.  consumeBurst on an empty queue
\* returns null and leaves the store as it is.
C30_BurstsAreFifo ==
    [][ /\ Handed(burstLog.returned)' \o hologram.pendingBursts'
            = [k \in 1..Len(burstLog.triggered') |->
                 Requested(burstLog.triggered'[k])]
        /\ (ConsumeBurst /\ Len(hologram.pendingBursts) = 0)
            => /\ hologram' = hologram
               /\ burstLog.returned' = Append(burstLog.returned, Null) ]_vars

\* Two bursts are pending behind one that was consumed; the second was
\* triggered without a count before the default was changed, and a
\* consumeBurst on the empty queue returned null.
C30_Witness ==
    /\ Len(burstLog.returned) >= 2
    /\ burstLog.returned[1] = Null
    /\ burstLog.returned[2] # Null
    /\ Len(hologram.pendingBursts) >= 1
    /\ \E k \in 1..Len(burstLog.triggered) :
          /\ Len(burstLog.triggered[k].args) = 0
          /\ burstLog.triggered[k].default # hologram.defaultBurstCount

(***************************************************************************)
(* The useSystemInfo hook                                                  *)
(***************************************************************************)

\* retry: 1 of the application's QueryClient.
queryRetry == 1

\* The responses the HTTP client resolves GET /system/info with.
InfoResponses == { [status |-> 200, data |-> d] : d \in InfoPayloads }

\* queryFn: const response = await api.get('/system/info'); return response.data
queryFnResult_response(response) == response

queryFnResult(response) == response.data

\* The request of the n-th run of queryFn.
QueryReq(n) == [kind |-> "systemInfo", call |-> <<"useSystemInfo", 1>>, n |-> n]

QueryOrigin == <<"useSystemInfo", 1>>

\* One run of queryFn up to its await.
QueryFetch ==
    /\ Send(Req(QueryOrigin, "GET", systemInfoUrl, Null))
    /\ inflight' = (inflight \ {r \in inflight : r.kind = "systemInfo"})
                      \cup {QueryReq(CountIn(sent, LAMBDA q : q.origin = QueryOrigin) + 1)}

\* The hook is mounted: the query has no data, so it fetches.
UseSystemInfo ==
    /\ calls < limits.calls
    /\ calls' = calls + 1
    /\ query.status = "idle"
    /\ query' = [query EXCEPT !.status = "pending", !.fetching = TRUE]
    /\ QueryFetch
    /\ UNCHANGED <<store, scans, cleans, backend, unhandled, now, limits,
                   inits, storage, toasts>>
    /\ UNCHANGED <<socketio, websocket, signals, hologram, burstLog>>

\* refetchInterval: 60000.
QueryRefetch ==
    /\ now < limits.ticks
    /\ now' = now + 1
    /\ query.status \in {"success", "error"}
    /\ ~query.fetching
    /\ query' = [query EXCEPT !.fetching = TRUE, !.failureCount = 0]
    /\ QueryFetch
    /\ UNCHANGED <<store, scans, cleans, backend, unhandled, calls, limits,
                   inits, storage, toasts>>
    /\ UNCHANGED <<socketio, websocket, signals, hologram, burstLog>>

\* api.get resolves: queryFn returns and the query succeeds.
QueryFnResolved(response) ==
    /\ \E r \in inflight : r.kind = "systemInfo"
    /\ inflight' = {r \in inflight : r.kind # "systemInfo"}
    /\ query' = [status |-> "success", data |-> queryFnResult(response),
                 error |-> Null, failureCount |-> 0, fetching |-> FALSE]
    /\ UNCHANGED <<store, scans, cleans, sent, backend, unhandled, calls, now,
                   limits, inits, storage, toasts>>
    /\ UNCHANGED <<socketio, websocket, signals, hologram, burstLog>>

\* api.get rejects: the interceptor shows its toast and rejects, queryFn
\* throws, and the query runs queryFn once more or gives up.
QueryFnRejected(error) ==
    /\ \E r \in inflight : r.kind = "systemInfo"
    /\ toasts' = Append(toasts, errorToast(error))
    /\ IF query.failureCount < queryRetry
       THEN /\ query' = [query EXCEPT !.failureCount = @ + 1]
            /\ QueryFetch
       ELSE /\ query' = [query EXCEPT !.status = "error",
                                      !.error = rejectionOf(error),
                                      !.failureCount = @ + 1,
                                      !.fetching = FALSE]
            /\ inflight' = {r \in inflight : r.kind # "systemInfo"}
            /\ UNCHANGED sent
    /\ UNCHANGED <<store, scans, cleans, backend, unhandled, calls, now,
                   limits, inits, storage>>
    /\ UNCHANGED <<socketio, websocket, signals, hologram, burstLog>>

(***************************************************************************)
(* Spec: the useSystemInfo hook from its mount on.                         *)
(***************************************************************************)
InitQuery ==
    /\ InitProgram
    /\ limits = [calls |-> 1, ticks |-> MaxRefetches]

NextQuery ==
    \/ UseSystemInfo
    \/ QueryRefetch
    \/ \E response \in InfoResponses : QueryFnResolved(response)
    \/ \E error \in InitErrors : QueryFnRejected(error)

SpecQuery == InitQuery /\ [][NextQuery]_vars

(***************************************************************************)
(* Claims about the useSystemInfo hook                                     *)
(***************************************************************************)

\* C25: the hook issues GET /system/info, and when that request succeeds the
\* query is in the success state with the data of the response, unchanged.
C25_QueryDataIsResponseData ==
    [][ /\ UseSystemInfo =>
              NewRequests = SetToBag({Req(QueryOrigin, "GET", systemInfoUrl, Null)})
        /\ \A response \in InfoResponses :
              QueryFnResolved(response) =>
                  /\ query'.status = "success"
                  /\ query'.data = response.data ]_vars

\* The query succeeded with the data of a response, after one failed run.
C25_Witness ==
    /\ query.status = "success"
    /\ query.data = [os |-> "windows"]
    /\ Len(toasts) = 1
    /\ ~query.fetching

(***************************************************************************)
(* The HTTP client: endpoints and apiHelpers                               *)
(***************************************************************************)

\* endpoints: the paths without an argument.
endpoints ==
    [ systemInfo |-> << "/system/info" >>,
      scanStart  |-> << "/scan/start" >>,
      cleanStart |-> << "/clean/start" >> ]

\* endpoints.scanStatus: (id) => `/scan/status/${id}`
endpoints_scanStatus(id) == << "/scan/status", id >>

\* endpoints.scanResults: (id) => `/scan/results/${id}`
endpoints_scanResults(id) == << "/scan/results", id >>

\* What a call hands to the HTTP client: method, url and body.
Wire(method, url, body) == [method |-> method, url |-> url, body |-> body]

\* apiHelpers.startScan(categories, enableAI = true)
apiHelpers_startScan(args) ==
    LET categories == args[1]
        enableAI == IF Len(args) < 2 THEN TRUE ELSE args[2]
    IN Wire("POST", endpoints.scanStart,
            [categories |-> categories, enable_ai |-> enableAI,
             user_id |-> "default"])

\* apiHelpers.getScanStatus(scanId)
apiHelpers_getScanStatus(args) == Wire("GET", endpoints_scanStatus(args[1]), Null)

\* apiHelpers.getScanResults(scanId)
apiHelpers_getScanResults(args) == Wire("GET", endpoints_scanResults(args[1]), Null)

\* apiHelpers.startCleaning(scanId, selectedItems, createBackup = true)
apiHelpers_startCleaning_noBackup(args) ==
    LET createBackup == IF Len(args) < 3 THEN FALSE ELSE args[3]
    IN Wire("POST", endpoints.cleanStart,
            [scan_id |-> args[1], selected_items |-> args[2],
             create_backup |-> createBackup, user_id |-> "default"])

apiHelpers_startCleaning(args) ==
    LET scanId == args[1]
        selectedItems == args[2]
        createBackup == IF Len(args) < 3 THEN TRUE ELSE args[3]
    IN Wire("POST", endpoints.cleanStart,
            [scan_id |-> scanId, selected_items |-> selectedItems,
             create_backup |-> createBackup, user_id |-> "default"])

\* The arguments the helpers are called with, the optional one given or not.
StartScanArgs ==
    { <<c>> : c \in CategoryLists } \cup (CategoryLists \X BOOLEAN)

ScanIdArgs == { <<id>> : id \in {1, 5} }

StartCleaningArgs ==
    LET selections == { << >>, <<"/tmp/a">> } IN
    ({1} \X selections) \cup ({1} \X selections \X BOOLEAN)

\* A helper called from outside the store: one request, whose promise goes
\* back to the caller.
ApiCall(helper, wire) ==
    /\ calls < limits.calls
    /\ calls' = calls + 1
    /\ Send(Req(<<"apiHelpers", helper>>, wire.method, wire.url, wire.body))
    /\ UNCHANGED <<store, scans, cleans, inflight, backend, unhandled, now,
                   limits, inits, storage, toasts>>
    /\ UNCHANGED <<socketio, websocket, signals, query, hologram, burstLog>>

ApiStartScan(args) == ApiCall("startScan", apiHelpers_startScan(args))

ApiGetScanStatus(args) == ApiCall("getScanStatus", apiHelpers_getScanStatus(args))

ApiGetScanResults(args) == ApiCall("getScanResults", apiHelpers_getScanResults(args))

ApiStartCleaning(args) == ApiCall("startCleaning", apiHelpers_startCleaning(args))

(***************************************************************************)
(* Spec: a scan and a cleaning through the store, next to calls of the     *)
(* helpers.                                                                *)
(***************************************************************************)
InitApi ==
    /\ InitProgram
    /\ limits = [calls |-> MaxApiCalls, ticks |-> MaxApiTicks]

NextApi ==
    \/ \E cats \in CategoryLists : Len(scans) < MaxApiScans /\ StartScan(cats)
    \/ \E c \in Calls : StartResolved(c)
    \/ \E c \in Calls : PollTick(c)
    \/ \E r \in inflight : StatusResolved(r)
    \/ \E r \in inflight : ResultsResolved(r)
    \/ \E id \in ScanIds : \E results \in ResultsPayloads(id) : BackendCompletes(id, results)
    \/ \E path \in Paths : SelectItem(path)
    \/ StartCleaning
    \/ \E args \in StartScanArgs : ApiStartScan(args)
    \/ \E args \in ScanIdArgs : ApiGetScanStatus(args)
    \/ \E args \in ScanIdArgs : ApiGetScanResults(args)
    \/ \E args \in StartCleaningArgs : ApiStartCleaning(args)

SpecApi == InitApi /\ [][NextApi]_vars

(***************************************************************************)
(* Claims about apiHelpers                                                 *)
(***************************************************************************)

\* The requests of a step as the HTTP client sees them.
NewWires == { Wire(r.method, r.url, r.body) : r \in BagToSet(NewRequests) }

\* The step sends exactly one request.
SendsOne == \A r \in BagToSet(NewRequests) : CopiesIn(r, NewRequests) = 1

\* C24: apiHelpers and the store send the same requests.  startScan(categories,
\* enableAI) is one POST to endpoints.scanStart with {categories, enable_ai:
\* enableAI, user_id: 'default'}, getScanStatus(id) one GET to
\* endpoints.scanStatus(id); and the store's startScan, status poll, results
\* fetch and startCleaning send what the helper of the same name sends when
\* it is called with the store's values and its optional argument left out.
C24_HelpersMatchStore ==
    [][ /\ \A cats \in CategoryLists, ai \in BOOLEAN :
              ApiStartScan(<<cats, ai>>) =>
                  /\ SendsOne
                  /\ NewWires = { Wire("POST", endpoints.scanStart,
                                       [categories |-> cats, enable_ai |-> ai,
                                        user_id |-> "default"]) }
        /\ \A args \in ScanIdArgs :
              ApiGetScanStatus(args) =>
                  /\ SendsOne
                  /\ NewWires = { Wire("GET", endpoints_scanStatus(args[1]), Null) }
        /\ \A cats \in CategoryLists :
              StartScan(cats) =>
                  /\ SendsOne
                  /\ NewWires = { apiHelpers_startScan(<<cats>>) }
        /\ \A c \in Calls :
              PollTick(c) =>
                  /\ SendsOne
                  /\ NewWires = { apiHelpers_getScanStatus(<<scans[c].scanId>>) }
        /\ \A r \in inflight :
              (StatusResolved(r) /\ NewRequests # EmptyBag) =>
                  /\ SendsOne
                  /\ NewWires = { apiHelpers_getScanResults(<<scans[r.call].scanId>>) }
        /\ (StartCleaning /\ NewRequests # EmptyBag) =>
                  /\ SendsOne
                  /\ NewWires = { apiHelpers_startCleaning(
                                     <<store.currentScan.scan_id,
                                       store.selectedItems>>) } ]_vars

\* The store posted a scan, polled it, fetched its results and posted a
\* cleaning of a selected path.
C24_Witness ==
    /\ \E c \in Calls : /\ PostsOf(sent, c) = 1
                        /\ StatusGetsOf(sent, c) = 1
                        /\ ResultsGetsOf(sent, c) = 1
    /\ \E k \in CleanCalls : CleanPostsOf(sent, k) = 1
    /\ \E r \in BagToSet(sent) : /\ r.origin[1] = "startCleaning"
                                 /\ Len(r.body.selected_items) = 1

(***************************************************************************)
(* Claims about failures without a response                                *)
(***************************************************************************)

\* The failures that carry no response: nothing came back, or the request
\* could not be built.
Unanswered == {NoResponseError, SetupError}

\* The interceptor handled one failure of call r: one more toast, the caller's
\* promise rejected with the error, and no request sent.
ReportedOnce(r, error) ==
    /\ Len(toasts') = Len(toasts) + 1
    /\ SubSeq(toasts', 1, Len(toasts)) = toasts
    /\ inits'[r.call[2]].rejection = error
    /\ NewRequests = EmptyBag

\* A failed call of initialize sends nothing any more and has nothing in
\* flight.
NoRetry ==
    \A i \in InitCalls :
        Failed(i) =>
            /\ InitRequestsOf(sent', i) = InitRequestsOf(sent, i)
            /\ \A r \in inflight' : r.call # <<"initialize", i>>

\* C21 as stated: a request without a response and a request that failed
\* while it was built are reported with the same notification, each once, and
\* neither is retried.
C21_ReportedIdentically ==
    [][ /\ \A r \in inflight, error \in Unanswered :
              InterceptError(r, error) =>
                  /\ ReportedOnce(r, error)
                  /\ \A other \in Unanswered :
                        toasts'[Len(toasts')] = errorToast(other)
        /\ NoRetry ]_vars

\* C21, amended: each of the two failures is reported once, by a notification
\* of its own kind: the fixed connection message when no response came, and
\* "Anfragefehler: " with the error's message when the request could not be
\* built.  The caller's promise is rejected with the error, and the client
\* sends no further request for the failed call.
C21_ReportedOncePerKind ==
    [][ /\ \A r \in inflight :
              /\ InterceptError(r, NoResponseError) =>
                    /\ ReportedOnce(r, NoResponseError)
                    /\ toasts'[Len(toasts')] =
                         << "Keine Verbindung zum Server. Ist der API-Server gestartet?" >>
              /\ InterceptError(r, SetupError) =>
                    /\ ReportedOnce(r, SetupError)
                    /\ toasts'[Len(toasts')] =
                         << "Anfragefehler: ", SetupError.message >>
        /\ NoRetry ]_vars

\* A request of initialize could not be built: one toast names the failure,
\* the call was caught, and the three requests of initialize were not all
\* sent.
C21_Witness ==
    /\ \E i \in InitCalls :
          /\ inits[i].caught = SetupError
          /\ inits[i].promise = "resolved"
          /\ InitRequestsOf(sent, i) = 2
    /\ toasts = << << "Anfragefehler: ", "Invalid URL" >> >>

(***************************************************************************)
(* The socket.io bridge hook                                               *)
(***************************************************************************)

\* The states of a socket made by io(url, {reconnection: true, ...}):
\* "connecting" from io(url) and while the manager reconnects, "connected"
\* after 'connect', "disconnected" after the server closed it or the manager
\* gave up, "closed" after socket.disconnect().
IoLive == {"connecting", "connected"}

\* The payloads of 'system_update': metrics of cpu, memory and disk, and an
\* update that carries only the other fields useSystemMetrics shows.
SystemUpdates ==
    { [cpu |-> 40, memory |-> 60, disk |-> 70],
      [disk_io |-> 5, network |-> [sent |-> 1, recv |-> 2]] }

\* The payloads of 'scan_progress'; progress is written in hundredths.
ScanProgresses ==
    { [scan_id |-> 1, status |-> "running", progress |-> 25],
      [scan_id |-> 1, status |-> "running", progress |-> 60,
       current_category |-> "temp_files"] }

\* The payloads of 'cleaning_progress'.
CleaningProgresses ==
    { [progress |-> 50, current_file |-> "/tmp/a"] }

\* The payloads of 'cleaning_complete'.
CleaningCompletes ==
    { [files_deleted |-> 2, bytes_freed |-> 1572864] }

\* The payloads of 'system_alert'.
SystemAlerts ==
    { [type |-> "disk", message |-> "Disk almost full", severity |-> "critical"],
      [type |-> "disk", message |-> "Disk almost full", severity |-> "debug"] }

\* The events the server pushes.
IoEvents ==
    { [type |-> "system_update", data |-> d] : d \in SystemUpdates } \cup
    { [type |-> "scan_progress", data |-> d] : d \in ScanProgresses } \cup
    { [type |-> "scan_complete", data |-> d] : d \in PushPayloads } \cup
    { [type |-> "cleaning_progress", data |-> d] : d \in CleaningProgresses } \cup
    { [type |-> "cleaning_complete", data |-> d] : d \in CleaningCompletes } \cup
    { [type |-> "system_alert", data |-> d] : d \in SystemAlerts }

\* data.cpu || data.memory || data.disk
truthy(data, k) == k \in DOMAIN data /\ data[k] # 0

hasMetrics(data) ==
    truthy(data, "cpu") \/ truthy(data, "memory") \/ truthy(data, "disk")

\* (bytes_freed / (1024 * 1024)).toFixed(2)
toFixed2(bytes) ==
    LET hundredths == (bytes * 100 + 524288) \div 1048576
        cents == hundredths % 100
    IN ToString(hundredths \div 100) \o "." \o
       (IF cents < 10 THEN "0" ELSE "") \o ToString(cents)

\* What a handler leaves alone besides the toasts and the signals.
HandlerFrame ==
    /\ calls < limits.calls
    /\ calls' = calls + 1
    /\ UNCHANGED <<store, storage, scans, cleans, inflight, sent, backend,
                   unhandled, now, limits, inits>>
    /\ UNCHANGED <<socketio, websocket, query, hologram, burstLog>>

HandleSystemUpdate(data) ==
    /\ signals' = IF hasMetrics(data)
                  THEN Append(signals, [type |-> "system-metrics-update",
                                        detail |-> data])
                  ELSE signals
    /\ UNCHANGED toasts
    /\ HandlerFrame

HandleScanProgress(data) ==
    /\ signals' = Append(signals,
          [type |-> "scan-progress",
           detail |-> [scan_id |-> data.scan_id, status |-> data.status,
                       progress |-> data.progress]])
    /\ toasts' = IF data.progress = 25
                 THEN Append(toasts, << "Temporaere Dateien werden gescannt..." >>)
                 ELSE IF data.progress = 50
                 THEN Append(toasts, << "Cache-Dateien werden analysiert..." >>)
                 ELSE IF data.progress = 75
                 THEN Append(toasts, << "Duplikate werden gesucht..." >>)
                 ELSE toasts
    /\ HandlerFrame

HandleCleaningProgress(data) ==
    /\ signals' = Append(signals,
          [type |-> "cleaning-progress",
           detail |-> [progress |-> data.progress,
                       current_file |-> data.current_file]])
    /\ UNCHANGED toasts
    /\ HandlerFrame

HandleCleaningComplete(data) ==
    /\ toasts' = Append(toasts,
          << "Bereinigung abgeschlossen! ", ToString(data.files_deleted),
             " Dateien geloescht, ", toFixed2(data.bytes_freed),
             " MB freigegeben." >>)
    /\ signals' = Append(signals, [type |-> "cleaning-complete", detail |-> data])
    /\ HandlerFrame

HandleSystemAlert(data) ==
    /\ toasts' = IF data.severity \in {"critical", "warning", "info"}
                 THEN Append(toasts, << data.message >>)
                 ELSE toasts
    /\ UNCHANGED signals
    /\ HandlerFrame

\* connect(url) of the component.
IoConnect ==
    /\ calls < limits.calls
    /\ calls' = calls + 1
    /\ IF socketio.ref # 0 /\ socketio.sockets[socketio.ref] = "connected"
       THEN UNCHANGED socketio
       ELSE socketio' = [socketio EXCEPT
                !.sockets = Append(@, "connecting"),
                !.ref = Len(socketio.sockets) + 1]
    /\ UNCHANGED <<store, storage, scans, cleans, inflight, sent, backend,
                   unhandled, now, limits, inits, toasts>>
    /\ UNCHANGED <<websocket, signals, query, hologram, burstLog>>

\* 'connect' on socket s.
IoOpened(s) ==
    /\ socketio.sockets[s] = "connecting"
    /\ now < limits.ticks
    /\ now' = now + 1
    /\ socketio' = [socketio EXCEPT !.sockets[s] = "connected",
                                    !.isConnected = TRUE]
    /\ toasts' = Append(toasts, << "Verbindung zum Server hergestellt" >>)
    /\ UNCHANGED <<store, storage, scans, cleans, inflight, sent, backend,
                   unhandled, calls, limits, inits>>
    /\ UNCHANGED <<websocket, signals, query, hologram, burstLog>>

\* 'disconnect' on socket s that neither disconnect() nor unmount caused: the
\* manager reconnects, unless the server closed the socket.
IoDropped(s, reason) ==
    /\ socketio.sockets[s] = "connected"
    /\ now < limits.ticks
    /\ now' = now + 1
    /\ socketio' = [socketio EXCEPT
            !.sockets[s] = IF reason = "io server disconnect"
                           THEN "disconnected" ELSE "connecting",
            !.isConnected = FALSE]
    /\ toasts' = IF reason = "io server disconnect"
                 THEN Append(toasts, << "Verbindung vom Server getrennt" >>)
                 ELSE toasts
    /\ UNCHANGED <<store, storage, scans, cleans, inflight, sent, backend,
                   unhandled, calls, limits, inits>>
    /\ UNCHANGED <<websocket, signals, query, hologram, burstLog>>

\* disconnect() of the component, and the cleanup on unmount that calls it.
\* socket.disconnect() fires 'disconnect' on a connected socket at once.
IoDisconnect ==
    /\ calls < limits.calls
    /\ calls' = calls + 1
    /\ IF socketio.ref # 0
       THEN socketio' = [socketio EXCEPT !.sockets[socketio.ref] = "closed",
                                         !.ref = 0,
                                         !.isConnected = FALSE]
       ELSE UNCHANGED socketio
    /\ UNCHANGED <<store, storage, scans, cleans, inflight, sent, backend,
                   unhandled, now, limits, inits, toasts>>
    /\ UNCHANGED <<websocket, signals, query, hologram, burstLog>>

\* emit(event, data)
IoEmit(event) ==
    /\ calls < limits.calls
    /\ calls' = calls + 1
    /\ IF socketio.ref # 0 /\ socketio.sockets[socketio.ref] = "connected"
       THEN socketio' = [socketio EXCEPT !.emitted = Append(@, event)]
       ELSE UNCHANGED socketio
    /\ UNCHANGED <<store, storage, scans, cleans, inflight, sent, backend,
                   unhandled, now, limits, inits, toasts>>
    /\ UNCHANGED <<websocket, signals, query, hologram, burstLog>>

\* Socket s of the hook receives an event of the server: the listener that
\* connect registered for its type runs.
IoEvent(s, type, data) ==
    /\ socketio.sockets[s] = "connected"
    /\ CASE type = "system_update" -> HandleSystemUpdate(data)
         [] type = "scan_progress" -> HandleScanProgress(data)
         [] type = "scan_complete" -> HandleScanComplete(data)
         [] type = "cleaning_progress" -> HandleCleaningProgress(data)
         [] type = "cleaning_complete" -> HandleCleaningComplete(data)
         [] type = "system_alert" -> HandleSystemAlert(data)

IoSockets == DOMAIN socketio.sockets

(***************************************************************************)
(* Spec: the socket.io bridge hook under connect, disconnect, emit and the  *)
(* events of its sockets.                                                  *)
(***************************************************************************)
InitBridge ==
    /\ InitProgram
    /\ limits = [calls |-> MaxBridgeCalls, ticks |-> MaxBridgeTicks]

NextBridge ==
    \/ IoConnect
    \/ IoDisconnect
    \/ IoEmit("request_update")
    \/ \E s \in IoSockets : IoOpened(s)
    \/ \E s \in IoSockets, reason \in {"transport close", "io server disconnect"} :
          IoDropped(s, reason)
    \/ \E s \in IoSockets, e \in IoEvents : IoEvent(s, e.type, e.data)

SpecBridge == InitBridge /\ [][NextBridge]_vars

(***************************************************************************)
(* Claims about the socket.io bridge hook                                  *)
(***************************************************************************)

\* The signal an event of the server is republished as.
SignalOf(type) ==
    CASE type = "system_update" -> "system-metrics-update"
      [] type = "scan_progress" -> "scan-progress"
      [] type = "scan_complete" -> "scan-complete"
      [] type = "cleaning_progress" -> "cleaning-progress"
      [] type = "cleaning_complete" -> "cleaning-complete"

Republished == { "system_update", "scan_progress", "scan_complete",
                 "cleaning_progress", "cleaning_complete" }

\* detail carries data: the whole of it, or for the two progress events the
\* fields the listener picks, with the values they have in data.
Carries(type, detail, data) ==
    IF type \in {"scan_progress", "cleaning_progress"}
    THEN \A k \in DOMAIN detail : k \in DOMAIN data /\ detail[k] = data[k]
    ELSE detail = data

\* C22: every event of the five republished types that a socket of the
\* bridge receives becomes exactly one signal of the corresponding name,
\* carrying the event's data, behind the signals of the events received
\* before it.
C22_EveryEventRepublished ==
    [][ \A s \in IoSockets, e \in IoEvents :
          (e.type \in Republished /\ IoEvent(s, e.type, e.data)) =>
             /\ Len(signals') = Len(signals) + 1
             /\ SubSeq(signals', 1, Len(signals)) = signals
             /\ signals'[Len(signals')].type = SignalOf(e.type)
             /\ Carries(e.type, signals'[Len(signals')].detail, e.data) ]_vars

\* C23: a bridge instance holds a single channel: of the sockets an instance
\* made, at most one is connecting or connected, whatever the order of
\* connect, disconnect and the sockets' events.
C23_SingleChannel ==
    Cardinality({ s \in IoSockets : socketio.sockets[s] \in IoLive }) <= 1

(***************************************************************************)
(* The scan page's controls                                                *)
(***************************************************************************)

\* {!isScanning ? <start button> : <button onClick={handleStopScan}>}
stopOffered(st) == st.isScanning

\* handleStopScan, run by a click on the stop button: stopScan(), then
\* toast.info(...).  react-hot-toast has no toast.info, so the second line
\* shows nothing; the store is as stopScan left it.
HandleStopScan == stopOffered(store) /\ StopScan

(***************************************************************************)
(* Spec: the store driven by the two buttons of the scan page only.        *)
(***************************************************************************)
InitPage ==
    /\ InitProgram
    /\ limits = [calls |-> MaxPageCalls, ticks |-> MaxPageTicks]

NextPage ==
    \/ \E cats \in CategoryLists : HandleStartScan(cats)
    \/ HandleStopScan
    \/ \E c \in Calls : StartResolved(c)
    \/ \E c \in Calls, err \in Errors : StartRejected(c, err)
    \/ \E c \in Calls : PollTick(c)
    \/ \E r \in inflight : StatusResolved(r)
    \/ \E r \in inflight : StatusRejected(r)
    \/ \E r \in inflight : ResultsResolved(r)
    \/ \E r \in inflight : ResultsRejected(r)
    \/ \E id \in ScanIds : \E results \in ResultsPayloads(id) : BackendCompletes(id, results)
    \/ \E id \in ScanIds : BackendFails(id)

SpecPage == InitPage /\ [][NextPage]_vars

(***************************************************************************)
(* Claims about the scan page                                              *)
(***************************************************************************)

\* C26: with start offered only while isScanning is false and stop only
\* while it is true, at most one poll timer is active at any time.
C26_OnePollTimer ==
    Cardinality({ c \in Calls : scans[c].timer }) <= 1

(***************************************************************************)
(* Spec: scan results arriving one after the other, selection through the  *)
(* page, and cleaning.                                                     *)
(***************************************************************************)

\* The results of two scans that found different files.
ScanPayloads ==
    { [scan_id |-> 1, status |-> "completed", total_files |-> 2,
       total_size |-> 500000, timestamp |-> 0,
       categories |-> << [items |-> << [path |-> "/tmp/a"], [path |-> "/tmp/b"] >>] >>],
      [scan_id |-> 2, status |-> "completed", total_files |-> 1,
       total_size |-> 1000, timestamp |-> 0,
       categories |-> << [items |-> << [path |-> "/tmp/c"] >>] >>] }

\* The paths of the files the page lists: those of currentScan.
Listed(st) ==
    IF st.currentScan = Null THEN {}
    ELSE LET paths == allPaths(st.currentScan.categories)
         IN { paths[k] : k \in 1..Len(paths) }

InitStale ==
    /\ InitProgram
    /\ limits = [calls |-> MaxStaleCalls, ticks |-> 0]

NextStale ==
    \/ \E result \in ScanPayloads : SetScanResult(result)
    \/ \E path \in Listed(store) : SelectItem(path)
    \/ SelectAll
    \/ DeselectAll
    \/ StartCleaning
    \/ \E k \in CleanCalls : CleanResolved(k)
    \/ \E k \in CleanCalls, err \in Errors : CleanRejected(k, err)

SpecStale == InitStale /\ [][NextStale]_vars

(***************************************************************************)
(* Claims about the selection                                              *)
(***************************************************************************)

\* The paths of the items of the scan with this scan_id.
ItemsOfScan(id) ==
    UNION { Listed([currentScan |-> result]) :
              result \in { q \in ScanPayloads : q.scan_id = id } }

\* C27: the selection belongs to the current scan.  Whenever currentScan is
\* set, every selected path is the path of one of its items, and every path
\* in selected_items of a /clean/start request is the path of an item of the
\* scan whose scan_id the request carries.
C27_SelectionOfCurrentScan ==
    /\ store.currentScan # Null =>
          \A k \in 1..Len(store.selectedItems) :
              store.selectedItems[k] \in Listed(store)
    /\ \A r \in BagToSet(sent) :
          r.url = cleanStartUrl =>
              \A k \in 1..Len(r.body.selected_items) :
                  r.body.selected_items[k] \in ItemsOfScan(r.body.scan_id)

(***************************************************************************)
(* Claims about a pushed completion                                        *)
(***************************************************************************)

\* C28: after the bridge handled a pushed scan-completion event, currentScan
\* is the event's payload, scanHistory has the payload appended, and
\* isScanning is false.
C28_PushedCompletionEndsScan ==
    [][ \A data \in PushPayloads :
          HandleScanComplete(data) =>
             /\ store'.currentScan = data
             /\ store'.scanHistory = Append(store.scanHistory, data)
             /\ store'.isScanning = FALSE ]_vars

(***************************************************************************)
(* The WebSocket bridge hook                                               *)
(***************************************************************************)

\* readyState of a WebSocket: "connecting" from new WebSocket(url), "open",
\* "closing" after close(), "closed" once its close event was delivered.
WsLive == {"connecting", "open"}

\* event.data of a message: JSON text of a message object, or text that
\* JSON.parse rejects.
WsFrames ==
    { [json |-> [type |-> "scan_progress", data |-> [progress |-> 25]]],
      [json |-> [type |-> "scan_error", data |-> [message |-> "disk unreadable"]]],
      [json |-> [type |-> "system_update", data |-> [cpu |-> 40]]],
      [json |-> [type |-> "pong", data |-> Null]],
      [text |-> "not json"] } \cup
    { [json |-> [type |-> "scan_complete", data |-> d]] : d \in PushPayloads }

WsSockets == DOMAIN websocket.sockets

\* The body of connect(url): nothing if the socket held is open, else a new
\* WebSocket takes its place in wsRef.
connected(ws) ==
    IF ws.ref # 0 /\ ws.sockets[ws.ref] = "open"
    THEN ws
    ELSE [ws EXCEPT !.sockets = Append(@, "connecting"),
                    !.ref = Len(ws.sockets) + 1]

\* What the hook's functions and listeners leave alone.
WsFrame ==
    /\ UNCHANGED <<cleans, inflight, sent, backend, unhandled, limits, inits,
                   toasts>>
    /\ UNCHANGED <<socketio, signals, query, hologram, burstLog>>

\* connect(url) of the component.
WsConnect ==
    /\ calls < limits.calls
    /\ calls' = calls + 1
    /\ websocket' = [connected(websocket) EXCEPT !.asked = "connect"]
    /\ UNCHANGED <<store, storage, scans, now>>
    /\ WsFrame

\* onopen
WsOpened(s) ==
    /\ websocket.sockets[s] = "connecting"
    /\ websocket' = [websocket EXCEPT !.sockets[s] = "open"]
    /\ UNCHANGED <<store, storage, scans, calls, now>>
    /\ WsFrame

\* onclose of socket s, whatever closed it: the hook's close(), the server
\* or the network.  It arms the reconnect timeout.
WsClosed(s) ==
    /\ websocket.sockets[s] # "closed"
    /\ websocket' = [websocket EXCEPT !.sockets[s] = "closed",
                                      !.timers = @ + 1]
    /\ UNCHANGED <<store, storage, scans, calls, now>>
    /\ WsFrame

\* setTimeout(() => connect(url), 3000) fires.
WsReconnect ==
    /\ websocket.timers > 0
    /\ now < limits.ticks
    /\ now' = now + 1
    /\ websocket' = [connected(websocket) EXCEPT !.timers = @ - 1]
    /\ UNCHANGED <<store, storage, scans, calls>>
    /\ WsFrame

\* disconnect() of the component, and the cleanup on unmount that calls it.
WsDisconnect ==
    /\ calls < limits.calls
    /\ calls' = calls + 1
    /\ websocket' =
          IF websocket.ref # 0
          THEN [websocket EXCEPT
                  !.sockets[websocket.ref] =
                      IF @ \in WsLive THEN "closing" ELSE @,
                  !.ref = 0,
                  !.asked = "disconnect"]
          ELSE [websocket EXCEPT !.asked = "disconnect"]
    /\ UNCHANGED <<store, storage, scans, now>>
    /\ WsFrame

\* sendMessage(message)
WsSendMessage(message) ==
    /\ calls < limits.calls
    /\ calls' = calls + 1
    /\ websocket' =
          IF websocket.ref # 0 /\ websocket.sockets[websocket.ref] = "open"
          THEN [websocket EXCEPT !.delivered = Append(@, message)]
          ELSE websocket
    /\ UNCHANGED <<store, storage, scans, now>>
    /\ WsFrame

\* onmessage of socket s.
WsMessage(s, frame) ==
    /\ websocket.sockets[s] = "open"
    /\ calls < limits.calls
    /\ calls' = calls + 1
    /\ LET stops == "json" \in DOMAIN frame
                      /\ frame.json.type \in {"scan_complete", "scan_error"}
           after == IF "json" \in DOMAIN frame /\ frame.json.type = "scan_complete"
                    THEN Spread(store, setScanResultPatch(store, frame.json.data))
                    ELSE store
       IN IF stops
          THEN /\ store' = Spread(after, stopScanPatch)
               /\ storage' = partialize(Spread(after, stopScanPatch))
               /\ scans' = [c \in Calls |->
                     [scans[c] EXCEPT !.timer = timerAfterStop(scans[c].timer),
                                      !.stopped = @ \/ Active(c)]]
          ELSE UNCHANGED <<store, storage, scans>>
    /\ UNCHANGED <<websocket, now>>
    /\ WsFrame

(***************************************************************************)
(* Spec: the WebSocket bridge hook under connect, disconnect, sendMessage  *)
(* and the events of its sockets.                                          *)
(***************************************************************************)
InitWs ==
    /\ InitProgram
    /\ limits = [calls |-> MaxWsCalls, ticks |-> MaxWsTicks]

NextWs ==
    \/ WsConnect
    \/ WsDisconnect
    \/ WsSendMessage("ping")
    \/ WsReconnect
    \/ \E s \in WsSockets : WsOpened(s)
    \/ \E s \in WsSockets : WsClosed(s)
    \/ \E s \in WsSockets, frame \in WsFrames : WsMessage(s, frame)

SpecWs == InitWs /\ [][NextWs]_vars

(***************************************************************************)
(* Claims about disconnect                                                 *)
(***************************************************************************)

\* C29: after disconnect() the bridge holds no socket and opens no new
\* connection until connect() is called again: the close event that follows
\* arms no reconnect, no socket is made, and a message sent meanwhile is
\* dropped.
C29_DisconnectedStaysDisconnected ==
    [][ (websocket.asked = "disconnect" /\ websocket'.asked = "disconnect") =>
          /\ websocket'.ref = 0
          /\ Len(websocket'.sockets) = Len(websocket.sockets)
          /\ websocket'.timers = websocket.timers
          /\ websocket'.delivered = websocket.delivered ]_vars

=============================================================================
